---- MODULE Spec2Model ----
(***************************************************************************)
(* Model of the sleep monitor's anomaly classifier (stats_utils.py) and of *)
(* the monitoring session that drives it (run_detector.py, db_utils.py).   *)
(*                                                                         *)
(* Conventions                                                             *)
(*   - sensor values, medians, MADs, guardrail limits and the z-score      *)
(*     threshold are fixed-point numbers in TENTHS (78.5 F is 785);        *)
(*   - a timestamp is a number of SECONDS; an ISO-8601 string is modelled  *)
(*     as the tagged value Iso(t), the empty string as EmptyStr and a      *)
(*     string datetime.fromisoformat rejects as BadStr;                    *)
(*   - a Python value that may be None is a record [present, v];           *)
(*   - a call that may raise returns a record with a "raised" field.       *)
(***************************************************************************)
EXTENDS Integers, Sequences, FiniteSets, TLC

VARIABLES
    current_reading,    \* detect_anomalies: the sample being classified
    baseline_stats,     \* detect_anomalies: the baseline dict
    config,             \* detect_anomalies: the config dict
    last_alert_times,   \* detect_anomalies: the last-alert dict
    outcome,            \* what the last classification call did
    pc,                 \* position of the monitoring loop
    now,                \* wall clock, seconds
    db_config,          \* storage: the config table (baseline, rules, last_alert_*)
    db_anomalies,       \* storage: the append-only anomalies table
    session_anomalies,  \* SleepMonitorDetector.session_anomalies
    anomaly_count,      \* SleepMonitorDetector.anomaly_count
    anomalies,          \* run(): the list detect_anomalies_in_window returned
    calls,              \* history: the non-empty lists the calls returned so far
    pending,            \* the writes a handler in progress has still to make
    readings,           \* storage: the readings table, in ts_utc order
    baseline,           \* BaselineBuilder.run: the baseline dict computed
    reading_buffer,     \* SleepMonitorDetector.reading_buffer
    reading_count,      \* SleepMonitorDetector.reading_count
    running,            \* SleepMonitorDetector.running
    email_enabled,      \* EmailAlertManager.enabled
    sink,               \* history: what was handed to the alert sink
    invocations,        \* history: the calls of detect_anomalies_in_window
    pushed,             \* history: the timestamps store_reading has pushed
    db_open,            \* storage: the detector's connection is open
    signals,            \* history: where run() stood at each signal delivered
    minute_groups,      \* aggregate_readings_to_minutes: the buckets, in dict order
    minute_stats        \* calculate_minute_stats of each bucket, same order

\* The variables the classifier and the classifying session work on.
sessionVars == <<current_reading, baseline_stats, config, last_alert_times, outcome,
                 now, db_config, db_anomalies, session_anomalies, anomaly_count,
                 anomalies, calls>>
\* The variables of calibration and of a handler's pending writes.
calVars == <<pending, readings, baseline, minute_groups, minute_stats>>
\* The variables of the sampling loop.
loopVars == <<reading_buffer, reading_count, running, email_enabled, sink, invocations,
              pushed, db_open, signals>>

vars == <<pc, sessionVars, calVars, loopVars>>

-----------------------------------------------------------------------------
(* Python values *)

NoneVal == [present |-> FALSE, v |-> 0]
Some(x) == [present |-> TRUE, v |-> x]
IsNone(o) == ~o.present
\* Python truthiness of an optional number: None and 0 are both falsy.
Truthy(o) == o.present /\ o.v # 0

EmptyStr == [k |-> "empty", t |-> 0]
BadStr == [k |-> "bad", t |-> 0]
Iso(t) == [k |-> "ts", t |-> t]
\* Python truthiness of a string: only '' is falsy.
StrTruthy(s) == s.k # "empty"

\* datetime.fromisoformat(s.replace('Z', '+00:00')): ValueError on a string
\* that is no ISO timestamp (the empty string included).
fromisoformat(s) ==
    IF s.k = "ts" THEN [raised |-> FALSE, t |-> s.t]
    ELSE [raised |-> TRUE, t |-> 0]

Abs(x) == IF x < 0 THEN -x ELSE x

-----------------------------------------------------------------------------
(* stats_utils.robust_z_score *)

\* 1.4826 = ScaleNum / ScaleDen
ScaleNum == 7413
ScaleDen == 5000

\* The z-score as the exact fraction <<numerator, denominator>>: the code
\* returns 0.0 when mad == 0 and abs(x - median) / (1.4826 * mad) otherwise.
robust_z_score(x, median, mad) ==
    IF mad = 0 THEN <<0, 1>>
    ELSE <<Abs(x - median) * ScaleDen, ScaleNum * mad>>

\* z > threshold, the threshold in tenths: z[1]/z[2] > thr/10, that is
\* 10 * z[1] > thr * z[2] (z[2] > 0), written so that no product overflows.
ExceedsThreshold(z, thr) == z[1] > (thr * z[2]) \div 10

-----------------------------------------------------------------------------
(* The dicts detect_anomalies reads *)

\* Metrics of a sample (the tuple positions 1, 2, 3, 4 and 7).
Metrics == {"temp_f", "humidity", "pressure", "lux", "sound_rms"}
\* Keys of last_alert_times, as detect_anomalies_in_window builds it.
AlertKeys == {"temp", "humidity", "pressure", "lux", "sound"}
\* Keys of baseline_stats, as detect_anomalies_in_window builds it and
\* calculate_baseline_thresholds returns it; detect_anomalies reads the
\* medians and the MADs.
BaselineKeys == {"temp_f_med", "temp_f_mad", "temp_f_std", "hum_med", "hum_mad", "hum_std",
                 "lux_med", "lux_mad", "lux_std", "sound_med", "sound_mad", "sound_std"}
\* Keys of config that detect_anomalies reads.
ConfigKeys == {"robust_z_threshold", "temp_roc_limit", "humidity_roc_limit",
               "lux_roc_limit", "sound_roc_limit", "temp_min", "temp_max",
               "humidity_min", "humidity_max", "lux_min", "lux_max",
               "sound_min", "sound_max", "cooldown_minutes"}

\* Defaults of config.get(key, default): tenths, but cooldown_minutes (minutes).
DefaultRobustZThreshold == 60
DefaultTempRocLimit == 30
DefaultHumidityRocLimit == 80
DefaultLuxRocLimit == 1000
DefaultSoundRocLimit == 100
DefaultTempMin == 500
DefaultTempMax == 900
DefaultHumidityMin == 100
DefaultHumidityMax == 850
DefaultLuxMin == 0
DefaultLuxMax == 100000
DefaultSoundMin == 0
DefaultSoundMax == 1000
DefaultCooldownMinutes == 15

\* dict.get(key, default) on a dict modelled as a function to optional values.
DictGet(d, key, default) == IF d[key].present THEN d[key].v ELSE default

\* One anomaly dict appended by detect_anomalies. The 'details' text is a
\* formatting of the other fields and is left out.
Anomaly(ts_utc, metric, value, rule) ==
    [ts_utc |-> ts_utc, metric |-> metric, value |-> value, rule |-> rule]

Returned(anoms) == [raised |-> FALSE, anomalies |-> anoms]
Raised == [raised |-> TRUE, anomalies |-> <<>>]

-----------------------------------------------------------------------------
(* stats_utils.should_send_alert and the cooldown check at each rule *)

\* Variants of should_send_alert the properties must tell from the code's:
\* a gate that opens at exactly cooldown_minutes, and one that stays shut on
\* a record it cannot parse.
should_send_alert_inclusive(last_alert_time, current_time, cooldown_minutes) ==
    IF ~StrTruthy(last_alert_time) THEN TRUE
    ELSE LET last_alert == fromisoformat(last_alert_time)
         IN  IF last_alert.raised THEN TRUE
             ELSE current_time - last_alert.t >= cooldown_minutes * 60

should_send_alert_strict_parse(last_alert_time, current_time, cooldown_minutes) ==
    IF ~StrTruthy(last_alert_time) THEN TRUE
    ELSE LET last_alert == fromisoformat(last_alert_time)
         IN  IF last_alert.raised THEN FALSE
             ELSE current_time - last_alert.t > cooldown_minutes * 60

should_send_alert(last_alert_time, current_time, cooldown_minutes) ==
    IF ~StrTruthy(last_alert_time) THEN TRUE
    ELSE LET last_alert == fromisoformat(last_alert_time)
         IN  IF last_alert.raised THEN TRUE     \* except ValueError: allow
             ELSE current_time - last_alert.t > cooldown_minutes * 60

\* last_alert = last_alert_times.get(key, '');
\* not last_alert or should_send_alert(last_alert, current_time, cooldown_minutes)
CooldownCheck(lat, key, current_time, cooldown_minutes) ==
    LET last_alert == lat[key]
    IN  ~StrTruthy(last_alert)
        \/ should_send_alert(last_alert, current_time, cooldown_minutes)

-----------------------------------------------------------------------------
(* stats_utils.detect_anomalies, block by block *)

\* current_time = datetime.fromisoformat(ts_utc.replace('Z', '+00:00'))
CurrentTime(r) == fromisoformat(r.ts_utc).t
\* float(config.get('robust_z_threshold', '6'))
ZThreshold(cfg) == DictGet(cfg, "robust_z_threshold", DefaultRobustZThreshold)
\* int(config.get('cooldown_minutes', '15'))
Cooldown(cfg) == DictGet(cfg, "cooldown_minutes", DefaultCooldownMinutes)

\* A variant of the z-score block that indexes the MAD as it indexes the
\* median: a missing baseline entry is then a KeyError.
ZScoreBlockIndexed(r, value, metric, medKey, madKey, alertKey, bs, cfg, lat) ==
    IF ~bs[madKey].present THEN Raised
    ELSE IF ~(bs[madKey].v > 0) THEN Returned(<<>>)
    ELSE IF ~bs[medKey].present THEN Raised
    ELSE IF IsNone(value) THEN Raised
    ELSE LET z == robust_z_score(value.v, bs[medKey].v, bs[madKey].v)
         IN  IF ExceedsThreshold(z, ZThreshold(cfg))
                /\ CooldownCheck(lat, alertKey, CurrentTime(r), Cooldown(cfg))
             THEN Returned(<<Anomaly(r.ts_utc, metric, value.v, "robust_z_score")>>)
             ELSE Returned(<<>>)

\* One z-score block: baseline_stats.get(mad, 0) > 0, then
\* robust_z_score(value, baseline_stats[med], baseline_stats[mad]) (KeyError
\* without a median, TypeError on a None value), the threshold and the
\* cooldown check.
ZScoreBlock(r, value, metric, medKey, madKey, alertKey, bs, cfg, lat) ==
    IF ~(DictGet(bs, madKey, 0) > 0) THEN Returned(<<>>)
    ELSE IF ~bs[medKey].present THEN Raised
    ELSE IF IsNone(value) THEN Raised
    ELSE LET z == robust_z_score(value.v, bs[medKey].v, bs[madKey].v)
         IN  IF ExceedsThreshold(z, ZThreshold(cfg))
                /\ CooldownCheck(lat, alertKey, CurrentTime(r), Cooldown(cfg))
             THEN Returned(<<Anomaly(r.ts_utc, metric, value.v, "robust_z_score")>>)
             ELSE Returned(<<>>)

\* One guardrail block on a value that is not None: value < lo or value > hi,
\* then the cooldown check.
GuardrailBlock(r, value, metric, alertKey, lo, hi, cfg, lat) ==
    IF (value.v < lo \/ value.v > hi)
       /\ CooldownCheck(lat, alertKey, CurrentTime(r), Cooldown(cfg))
    THEN Returned(<<Anomaly(r.ts_utc, metric, value.v, "guardrail")>>)
    ELSE Returned(<<>>)

\* The temperature z-score: no None check on temp_f.
TempZScore(r, bs, cfg, lat) ==
    ZScoreBlock(r, r.temp_f, "temp_f", "temp_f_med", "temp_f_mad", "temp", bs, cfg, lat)

\* The humidity z-score: no None check on humidity.
HumidityZScore(r, bs, cfg, lat) ==
    ZScoreBlock(r, r.humidity, "humidity", "hum_med", "hum_mad", "humidity", bs, cfg, lat)

\* A variant of the temperature guardrail that widens the range upwards by
\* the rate-of-change limit.
TempGuardrailRoc(r, cfg, lat) ==
    IF IsNone(r.temp_f) THEN Raised
    ELSE GuardrailBlock(r, r.temp_f, "temp_f", "temp",
                        DictGet(cfg, "temp_min", DefaultTempMin),
                        DictGet(cfg, "temp_max", DefaultTempMax)
                            + DictGet(cfg, "temp_roc_limit", DefaultTempRocLimit),
                        cfg, lat)

\* The temperature guardrail: temp_f < temp_min raises TypeError on None.
TempGuardrail(r, cfg, lat) ==
    IF IsNone(r.temp_f) THEN Raised
    ELSE GuardrailBlock(r, r.temp_f, "temp_f", "temp",
                        DictGet(cfg, "temp_min", DefaultTempMin),
                        DictGet(cfg, "temp_max", DefaultTempMax), cfg, lat)

\* The humidity guardrail: "if humidity and (...)" skips None and also 0.0.
HumidityGuardrail(r, cfg, lat) ==
    IF ~Truthy(r.humidity) THEN Returned(<<>>)
    ELSE GuardrailBlock(r, r.humidity, "humidity", "humidity",
                        DictGet(cfg, "humidity_min", DefaultHumidityMin),
                        DictGet(cfg, "humidity_max", DefaultHumidityMax), cfg, lat)

\* Sequential composition of two blocks: an exception discards the list.
Then(a, b) ==
    IF a.raised \/ b.raised THEN Raised
    ELSE Returned(a.anomalies \o b.anomalies)

\* "if lux is not None": z-score, then guardrail.
LuxBlock(r, bs, cfg, lat) ==
    IF IsNone(r.lux) THEN Returned(<<>>)
    ELSE Then(ZScoreBlock(r, r.lux, "lux", "lux_med", "lux_mad", "lux", bs, cfg, lat),
              GuardrailBlock(r, r.lux, "lux", "lux",
                             DictGet(cfg, "lux_min", DefaultLuxMin),
                             DictGet(cfg, "lux_max", DefaultLuxMax), cfg, lat))

\* "if sound_rms is not None": z-score, then guardrail.
SoundBlock(r, bs, cfg, lat) ==
    IF IsNone(r.sound_rms) THEN Returned(<<>>)
    ELSE Then(ZScoreBlock(r, r.sound_rms, "sound_rms", "sound_med", "sound_mad",
                          "sound", bs, cfg, lat),
              GuardrailBlock(r, r.sound_rms, "sound_rms", "sound",
                             DictGet(cfg, "sound_min", DefaultSoundMin),
                             DictGet(cfg, "sound_max", DefaultSoundMax), cfg, lat))

\* A variant of the classifier with a guardrail on pressure, 950 to 1010 hPa.
detect_anomalies_with_pressure(r, bs, cfg, lat) ==
    IF fromisoformat(r.ts_utc).raised THEN Raised
    ELSE Then(TempZScore(r, bs, cfg, lat),
         Then(HumidityZScore(r, bs, cfg, lat),
         Then(TempGuardrail(r, cfg, lat),
         Then(HumidityGuardrail(r, cfg, lat),
         Then(LuxBlock(r, bs, cfg, lat),
         Then(SoundBlock(r, bs, cfg, lat),
              IF IsNone(r.pressure) THEN Returned(<<>>)
              ELSE GuardrailBlock(r, r.pressure, "pressure", "pressure", 9500, 10100,
                                  cfg, lat)))))))

\* detect_anomalies(current_reading, baseline_stats, config, last_alert_times):
\* the returned list, or the exception. The rate-of-change limits are parsed
\* and never used. It reads its arguments and writes nothing.
detect_anomalies(r, bs, cfg, lat) ==
    IF fromisoformat(r.ts_utc).raised THEN Raised
    ELSE Then(TempZScore(r, bs, cfg, lat),
         Then(HumidityZScore(r, bs, cfg, lat),
         Then(TempGuardrail(r, cfg, lat),
         Then(HumidityGuardrail(r, cfg, lat),
         Then(LuxBlock(r, bs, cfg, lat),
              SoundBlock(r, bs, cfg, lat))))))

-----------------------------------------------------------------------------
(* Storage: db_utils.DatabaseManager on the config and anomalies tables *)

\* db_config is [baseline: the baseline_* statistics, computed_at: the key
\* baseline_computed_at, rules: the rule keys, last_alert: the last_alert_*
\* keys]; a key that is not stored holds NoneVal (EmptyStr for a last_alert_*
\* key, which get_config(...) or '' reads as '', and for computed_at).

\* DatabaseManager.set_config on a last_alert_* key: INSERT OR REPLACE, commit.
set_config_last_alert(db, key, value) ==
    [db EXCEPT !.last_alert[key] = value]

\* DatabaseManager.insert_anomaly: append to the anomalies table, commit.
insert_anomaly(log, anomaly) == Append(log, anomaly)

-----------------------------------------------------------------------------
(* run_detector.SleepMonitorDetector *)

\* get_baseline_config: the stored keys, or None without baseline_temp_f_med.
get_baseline_config(db) ==
    IF ~db.baseline["temp_f_med"].present
    THEN [found |-> FALSE, baseline |-> db.baseline, rules |-> db.rules]
    ELSE [found |-> TRUE, baseline |-> db.baseline, rules |-> db.rules]

\* baseline_stats of detect_anomalies_in_window: every key, 0 when not stored.
WindowBaselineStats(cfg) ==
    [k \in BaselineKeys |-> Some(DictGet(cfg.baseline, k, 0))]

\* last_alert_times of detect_anomalies_in_window: get_config(key) or ''.
WindowLastAlertTimes(db) == [k \in AlertKeys |-> db.last_alert[k]]

\* A variant of the key mapping that files temperature alerts under another
\* key than the one detect_anomalies reads.
AlertKeyCrossed(metric) ==
    CASE metric = "temp_f" -> "pressure"
      [] metric = "humidity" -> "humidity"
      [] metric = "pressure" -> "temp"
      [] metric = "lux" -> "lux"
      [] metric = "sound_rms" -> "sound"

\* The last_alert_* key handle_anomalies writes for an anomaly's metric.
AlertKeyOf(metric) ==
    CASE metric = "temp_f" -> "temp"
      [] metric = "humidity" -> "humidity"
      [] metric = "pressure" -> "pressure"
      [] metric = "lux" -> "lux"
      [] metric = "sound_rms" -> "sound"

\* The loop of handle_anomalies over the list: insert_anomaly, then set_config
\* of the metric's last-alert key to the anomaly's ts_utc.
RECURSIVE StoreAnomalies(_, _, _)
StoreAnomalies(anoms, db, log) ==
    IF anoms = <<>> THEN [db |-> db, log |-> log]
    ELSE StoreAnomalies(Tail(anoms),
                        set_config_last_alert(db, AlertKeyOf(Head(anoms).metric),
                                              Head(anoms).ts_utc),
                        insert_anomaly(log, Head(anoms)))

\* detect_anomalies_in_window once the window holds its 10 readings: the list
\* returned. Any exception of the body is caught and [] is returned.
detect_anomalies_in_window(db, latest_reading) ==
    LET cfg == get_baseline_config(db)
        res == detect_anomalies(latest_reading, WindowBaselineStats(cfg), cfg.rules,
                                WindowLastAlertTimes(db))
    IN  IF ~cfg.found THEN <<>>
        ELSE IF res.raised THEN <<>>
        ELSE res.anomalies

-----------------------------------------------------------------------------
(* Inputs *)

\* A dict over the given keys from the entries given, every other key absent.
DictOf(keys, entries) ==
    [k \in keys |-> IF k \in DOMAIN entries THEN Some(entries[k]) ELSE NoneVal]

NoEntries == [k \in {} |-> 0]

\* The classifier's inputs: a prior alert at second 0 and samples 10, 15 and
\* 16 minutes after it; the scenario values 78.5, 82.0 and a value beyond
\* each guardrail; baselines with an entry missing, a zero MAD, the scenario
\* entry and one centred on the out-of-range value.
ClassifyReadings ==
    [ts_utc : {Iso(600), Iso(900), Iso(960)},
     temp_f : {NoneVal, Some(785), Some(820), Some(950)},
     humidity : {NoneVal, Some(0), Some(400), Some(900)},
     pressure : {Some(10132)},
     lux : {NoneVal, Some(100010)},
     sound_rms : {NoneVal, Some(1010)}]

TempEntries ==
    {NoEntries, [temp_f_med |-> 700, temp_f_mad |-> 10],
     [temp_f_med |-> 700, temp_f_mad |-> 0], [temp_f_med |-> 950, temp_f_mad |-> 10]}
HumEntries == {NoEntries, [hum_med |-> 400, hum_mad |-> 10]}
LuxEntries == {NoEntries, [lux_med |-> 50, lux_mad |-> 10]}
SoundEntries == {NoEntries, [sound_med |-> 300, sound_mad |-> 10]}

ClassifyBaselines ==
    {DictOf(BaselineKeys, t @@ h @@ l @@ sd) :
        t \in TempEntries, h \in HumEntries, l \in LuxEntries, sd \in SoundEntries}

\* No key stored (every default), or a stricter threshold, a shorter cooldown
\* and a narrower temperature range.
ClassifyConfigs ==
    {DictOf(ConfigKeys, NoEntries),
     DictOf(ConfigKeys, [robust_z_threshold |-> 55, cooldown_minutes |-> 10,
                         temp_max |-> 800])}

ClassifyLastAlerts ==
    [temp : {EmptyStr, BadStr, Iso(0)}, humidity : {EmptyStr, Iso(0)},
     pressure : {EmptyStr}, lux : {EmptyStr, Iso(0)}, sound : {EmptyStr}]

NoLastAlerts == [k \in AlertKeys |-> EmptyStr]

NoReading ==
    [ts_utc |-> Iso(0), temp_f |-> NoneVal, humidity |-> NoneVal,
     pressure |-> NoneVal, lux |-> NoneVal, sound_rms |-> NoneVal]

EmptyStore ==
    [baseline |-> DictOf(BaselineKeys, NoEntries), computed_at |-> EmptyStr,
     rules |-> DictOf(ConfigKeys, NoEntries),
     last_alert |-> [k \in AlertKeys |-> EmptyStr]]

\* No calibration in progress and no handler part-way through its writes.
IdleCal ==
    /\ pending = <<>>
    /\ readings = <<>>
    /\ baseline = NoEntries
    /\ minute_groups = <<>>
    /\ minute_stats = <<>>

\* The sampling loop as __init__ leaves it, the alert sink not configured.
IdleLoop ==
    /\ reading_buffer = <<>>
    /\ reading_count = 0
    /\ running = FALSE
    /\ email_enabled = FALSE
    /\ sink = <<>>
    /\ invocations = <<>>
    /\ pushed = <<>>
    /\ db_open = TRUE
    /\ signals = <<>>

-----------------------------------------------------------------------------
(* The classifier alone: one call of detect_anomalies on any input *)

InitClassify ==
    /\ current_reading \in ClassifyReadings
    /\ baseline_stats \in ClassifyBaselines
    /\ config \in ClassifyConfigs
    /\ last_alert_times \in ClassifyLastAlerts
    /\ outcome = Returned(<<>>)
    /\ pc = "call"
    /\ now = 0
    /\ db_config = EmptyStore
    /\ db_anomalies = <<>>
    /\ session_anomalies = <<>>
    /\ anomaly_count = 0
    /\ anomalies = <<>>
    /\ calls = <<>>
    /\ IdleCal
    /\ IdleLoop

\* anomalies = detect_anomalies(current_reading, baseline_stats, config,
\*                              last_alert_times)
ClassifyCall ==
    /\ pc = "call"
    /\ outcome' = detect_anomalies(current_reading, baseline_stats, config,
                                   last_alert_times)
    /\ pc' = "returned"
    /\ UNCHANGED <<current_reading, baseline_stats, config, last_alert_times, now,
                   db_config, db_anomalies, session_anomalies, anomaly_count,
                   anomalies, calls, calVars, loopVars>>

NextClassify == ClassifyCall

SpecClassify == InitClassify /\ [][NextClassify]_vars

-----------------------------------------------------------------------------
(* The monitoring session: run() at the iterations that classify *)

\* The run considered, in minutes of wall clock.
MaxMinutes == 17

\* Wall-clock seconds between the classification calls followed. run()
\* classifies at every 30th stored reading, so two calls are 30 s or more
\* apart; gaps of 5 and 6 minutes put calls 5, 6, 10, 11, 12, 15, 16 and 17
\* minutes after an alert, on both sides of the 10 and 15 minute cooldowns.
TickSteps == {300, 360}

\* What the config table holds when run() starts: the baseline as
\* store_baseline_config writes it (temperature and humidity only), no rule
\* key or a shorter cooldown, and last-alert records left by earlier
\* sessions: none, a timestamp, or a value that is no timestamp.
SessionStores ==
    [baseline : {DictOf(BaselineKeys, [temp_f_med |-> 700, temp_f_mad |-> 10,
                                       temp_f_std |-> 15, hum_med |-> 400,
                                       hum_mad |-> 10, hum_std |-> 15])},
     computed_at : {Iso(0)},
     rules : {DictOf(ConfigKeys, NoEntries),
              DictOf(ConfigKeys, [cooldown_minutes |-> 10])},
     last_alert : [temp : {EmptyStr, BadStr, Iso(0)}, humidity : {EmptyStr},
                   pressure : {EmptyStr}, lux : {EmptyStr},
                   sound : {EmptyStr}]]

\* What read_sensors may return at wall-clock time t, stamped by
\* store_reading. The BME280 block sets temp_f, then humidity, then pressure,
\* and stops at the first read that fails; the light sensor is missing or
\* reads daylight; there is no microphone. A reading with every value None
\* is not stored.
SessionReadings(t) ==
    {r \in [ts_utc : {Iso(t)},
            temp_f : {NoneVal, Some(700), Some(950)},
            humidity : {NoneVal, Some(400)},
            pressure : {NoneVal, Some(10132)},
            lux : {NoneVal, Some(100010)},
            sound_rms : {NoneVal}] :
        /\ IsNone(r.temp_f) => IsNone(r.humidity)
        /\ IsNone(r.humidity) <=> IsNone(r.pressure)
        /\ ~(IsNone(r.temp_f) /\ IsNone(r.lux))}

Init ==
    /\ now = 0
    /\ db_config \in SessionStores
    /\ db_anomalies = <<>>
    /\ session_anomalies = <<>>
    /\ anomaly_count = 0
    /\ anomalies = <<>>
    /\ pc = "loop"
    /\ current_reading = NoReading
    /\ baseline_stats = DictOf(BaselineKeys, NoEntries)
    /\ config = DictOf(ConfigKeys, NoEntries)
    /\ last_alert_times = NoLastAlerts
    /\ outcome = Returned(<<>>)
    /\ calls = <<>>
    /\ IdleCal
    /\ IdleLoop

\* time.sleep(1) and the iterations that do not classify. The locals of the
\* last classification call are gone.
Tick ==
    /\ pc = "loop"
    /\ \E d \in TickSteps :
          /\ now + d <= MaxMinutes * 60
          /\ now' = now + d
    /\ current_reading' = NoReading
    /\ baseline_stats' = DictOf(BaselineKeys, NoEntries)
    /\ config' = DictOf(ConfigKeys, NoEntries)
    /\ last_alert_times' = NoLastAlerts
    /\ outcome' = Returned(<<>>)
    /\ anomalies' = <<>>
    /\ UNCHANGED <<pc, db_config, db_anomalies, session_anomalies, anomaly_count, calls,
                   calVars, loopVars>>

\* A variant of the classification step in which the classifier itself
\* records the alert times of what it emits.
DetectStepRecording ==
    /\ pc = "loop"
    /\ \E reading \in SessionReadings(now) :
          LET cfg == get_baseline_config(db_config)
              returned == detect_anomalies_in_window(db_config, reading)
          IN  /\ current_reading' = reading
              /\ baseline_stats' = WindowBaselineStats(cfg)
              /\ config' = cfg.rules
              /\ last_alert_times' = WindowLastAlertTimes(db_config)
              /\ outcome' = detect_anomalies(reading, WindowBaselineStats(cfg),
                                             cfg.rules, WindowLastAlertTimes(db_config))
              /\ anomalies' = returned
              /\ pc' = IF returned # <<>> THEN "handle" ELSE "loop"
              /\ calls' = IF returned # <<>> THEN Append(calls, returned) ELSE calls
              /\ db_config' = StoreAnomalies(returned, db_config, <<>>).db
    /\ UNCHANGED <<now, db_anomalies, session_anomalies, anomaly_count, calVars, loopVars>>

\* run(): anomalies = self.detect_anomalies_in_window() on the reading just
\* stored; "if anomalies:" then decides whether handle_anomalies is called.
\* current_reading, baseline_stats, config, last_alert_times and outcome keep
\* what the call passed to detect_anomalies and what that did.
DetectStep ==
    /\ pc = "loop"
    /\ \E reading \in SessionReadings(now) :
          LET cfg == get_baseline_config(db_config)
              returned == detect_anomalies_in_window(db_config, reading)
          IN  /\ current_reading' = reading
              /\ baseline_stats' = WindowBaselineStats(cfg)
              /\ config' = cfg.rules
              /\ last_alert_times' = WindowLastAlertTimes(db_config)
              /\ outcome' = detect_anomalies(reading, WindowBaselineStats(cfg),
                                             cfg.rules, WindowLastAlertTimes(db_config))
              /\ anomalies' = returned
              /\ pc' = IF returned # <<>> THEN "handle" ELSE "loop"
              /\ calls' = IF returned # <<>> THEN Append(calls, returned) ELSE calls
    /\ UNCHANGED <<now, db_config, db_anomalies, session_anomalies, anomaly_count,
                   calVars, loopVars>>

\* handle_anomalies(anomalies) with storage working: every anomaly inserted
\* and its metric's last-alert key set, then the list added to the session's.
HandleStep ==
    /\ pc = "handle"
    /\ LET stored == StoreAnomalies(anomalies, db_config, db_anomalies)
       IN  /\ db_config' = stored.db
           /\ db_anomalies' = stored.log
    /\ session_anomalies' = session_anomalies \o anomalies
    /\ anomaly_count' = anomaly_count + Len(anomalies)
    /\ pc' = "loop"
    /\ UNCHANGED <<current_reading, baseline_stats, config, last_alert_times,
                   outcome, now, anomalies, calls, calVars, loopVars>>

Next == Tick \/ DetectStep \/ HandleStep

Spec == Init /\ [][Next]_vars

-----------------------------------------------------------------------------
(* Vocabulary of the properties *)

\* The metrics the classifier has rules for.
RuleMetrics == {"temp_f", "humidity", "lux", "sound_rms"}

ValueOf(r, m) ==
    CASE m = "temp_f" -> r.temp_f
      [] m = "humidity" -> r.humidity
      [] m = "pressure" -> r.pressure
      [] m = "lux" -> r.lux
      [] m = "sound_rms" -> r.sound_rms

MedKeyOf(m) ==
    CASE m = "temp_f" -> "temp_f_med" [] m = "humidity" -> "hum_med"
      [] m = "lux" -> "lux_med" [] m = "sound_rms" -> "sound_med"

MadKeyOf(m) ==
    CASE m = "temp_f" -> "temp_f_mad" [] m = "humidity" -> "hum_mad"
      [] m = "lux" -> "lux_mad" [] m = "sound_rms" -> "sound_mad"

\* The configured guardrail range of a metric.
MinOf(cfg, m) ==
    CASE m = "temp_f" -> DictGet(cfg, "temp_min", DefaultTempMin)
      [] m = "humidity" -> DictGet(cfg, "humidity_min", DefaultHumidityMin)
      [] m = "lux" -> DictGet(cfg, "lux_min", DefaultLuxMin)
      [] m = "sound_rms" -> DictGet(cfg, "sound_min", DefaultSoundMin)

MaxOf(cfg, m) ==
    CASE m = "temp_f" -> DictGet(cfg, "temp_max", DefaultTempMax)
      [] m = "humidity" -> DictGet(cfg, "humidity_max", DefaultHumidityMax)
      [] m = "lux" -> DictGet(cfg, "lux_max", DefaultLuxMax)
      [] m = "sound_rms" -> DictGet(cfg, "sound_max", DefaultSoundMax)

\* The sample with the metrics of `absent` not sampled.
Without(r, absent) ==
    [ts_utc |-> r.ts_utc,
     temp_f |-> IF "temp_f" \in absent THEN NoneVal ELSE r.temp_f,
     humidity |-> IF "humidity" \in absent THEN NoneVal ELSE r.humidity,
     pressure |-> IF "pressure" \in absent THEN NoneVal ELSE r.pressure,
     lux |-> IF "lux" \in absent THEN NoneVal ELSE r.lux,
     sound_rms |-> IF "sound_rms" \in absent THEN NoneVal ELSE r.sound_rms]

EventsOf(anoms, m) == SelectSeq(anoms, LAMBDA e : e.metric = m)
HasEvent(anoms, m, rule) ==
    \E i \in 1..Len(anoms) : anoms[i].metric = m /\ anoms[i].rule = rule

\* The cooldown gate as specified: no prior alert recorded for the metric (no
\* record, or one that is no timestamp), or the sample is more than
\* cooldown_minutes after it.
GateOpen(lat, m, r, cfg) ==
    LET last == lat[AlertKeyOf(m)]
    IN  last.k # "ts" \/ r.ts_utc.t - last.t > Cooldown(cfg) * 60

\* The z-score rule's condition as specified: baseline MAD > 0 and
\* |value - median| / (1.4826 * MAD) > threshold.
ZScoreDue(r, m, bs, cfg) ==
    /\ ValueOf(r, m).present
    /\ DictGet(bs, MadKeyOf(m), 0) > 0
    /\ bs[MedKeyOf(m)].present
    /\ 5000 * Abs(ValueOf(r, m).v - bs[MedKeyOf(m)].v)
         > (ZThreshold(cfg) * 7413 * bs[MadKeyOf(m)].v) \div 10

\* The guardrail rule's condition as specified: a present value outside the
\* configured range.
GuardrailDue(r, m, cfg) ==
    /\ ValueOf(r, m).present
    /\ (ValueOf(r, m).v < MinOf(cfg, m) \/ ValueOf(r, m).v > MaxOf(cfg, m))

IsReturned == pc = "returned"
\* The call has returned its list (it did not raise).
HasReturnedList == pc = "returned" /\ ~outcome.raised

-----------------------------------------------------------------------------
(* C2 *)

\* C2: the events a call emits for a metric M are those it would emit with no
\* prior alert at all when the gate of M is open (no prior alert recorded for
\* M, or sample time - last alert of M > cooldown_minutes), and none when it
\* is closed; the last-alert times of the other metrics play no part. With
\* cooldown 15 and a prior alert at T this closes the gate at T+10min and at
\* exactly T+15min and opens it at T+16min.
C2_CooldownGate ==
    IsReturned =>
        \A m \in RuleMetrics :
            EventsOf(outcome.anomalies, m) =
                IF GateOpen(last_alert_times, m, current_reading, config)
                THEN EventsOf(detect_anomalies(current_reading, baseline_stats,
                                               config, NoLastAlerts).anomalies, m)
                ELSE <<>>

\* Cooldown 15, prior temperature alert at T = 0, 82.0 F at T+16min: emitted.
C2_Witness ==
    /\ IsReturned
    /\ Cooldown(config) = 15
    /\ last_alert_times["temp"] = Iso(0)
    /\ current_reading.ts_utc = Iso(960)
    /\ current_reading.temp_f = Some(820)
    /\ HasEvent(outcome.anomalies, "temp_f", "robust_z_score")

-----------------------------------------------------------------------------
(* C3 *)

\* The scenario of the specification: only temperature sampled, baseline
\* {temp_f_med = 70.0, temp_f_mad = 1.0}, every rule at its default (threshold 6.0,
\* guardrail [50, 90]), no prior alert.
InScenario(temp) ==
    /\ IsReturned
    /\ current_reading.temp_f = Some(temp)
    /\ \A m \in RuleMetrics \ {"temp_f"} : ~ValueOf(current_reading, m).present
    /\ baseline_stats = DictOf(BaselineKeys, [temp_f_med |-> 700, temp_f_mad |-> 10])
    /\ config = DictOf(ConfigKeys, NoEntries)
    /\ last_alert_times = NoLastAlerts

\* C3: for every metric present in the sample a call emits a robust_z_score
\* event exactly when the baseline MAD of the metric is > 0, the z-score
\* exceeds the configured threshold and the cooldown gate is open; in the
\* scenario 78.5 gives no event and 82.0 gives the single event
\* robust_z_score.
C3_ZScoreRule ==
    IsReturned =>
        /\ \A m \in RuleMetrics :
              ValueOf(current_reading, m).present =>
                  (HasEvent(outcome.anomalies, m, "robust_z_score")
                     <=> /\ ZScoreDue(current_reading, m, baseline_stats, config)
                         /\ GateOpen(last_alert_times, m, current_reading, config))
        /\ InScenario(785) => outcome.anomalies = <<>>
        /\ InScenario(820) =>
              /\ Len(outcome.anomalies) = 1
              /\ outcome.anomalies[1].metric = "temp_f"
              /\ outcome.anomalies[1].rule = "robust_z_score"

-----------------------------------------------------------------------------
(* C4 *)

GuardrailEvents(anoms) == SelectSeq(anoms, LAMBDA e : e.rule = "guardrail")

\* C4: in a call that returns, a present value outside the configured range
\* of its metric yields a guardrail event when the cooldown gate is open, and
\* the guardrail events are those of the same call under any other baseline
\* (a zero MAD included).
C4_GuardrailIndependent ==
    HasReturnedList =>
        /\ \A m \in RuleMetrics :
              (GuardrailDue(current_reading, m, config)
               /\ GateOpen(last_alert_times, m, current_reading, config))
                  => HasEvent(outcome.anomalies, m, "guardrail")
        /\ \A bs \in ClassifyBaselines :
              GuardrailEvents(detect_anomalies(current_reading, bs, config,
                                               last_alert_times).anomalies)
                  = GuardrailEvents(outcome.anomalies)

-----------------------------------------------------------------------------
(* C5 *)

\* C5: in a call that returns, a value that exceeds the z-score threshold and
\* lies outside the guardrail range yields, the cooldown gate being open,
\* both a robust_z_score and a guardrail event of its metric.
C5_BothRules ==
    HasReturnedList =>
        \A m \in RuleMetrics :
            (/\ ZScoreDue(current_reading, m, baseline_stats, config)
             /\ GuardrailDue(current_reading, m, config)
             /\ GateOpen(last_alert_times, m, current_reading, config))
                => /\ HasEvent(outcome.anomalies, m, "robust_z_score")
                   /\ HasEvent(outcome.anomalies, m, "guardrail")

-----------------------------------------------------------------------------
(* C6 *)

\* C6: with any set of metrics absent from the sample the call does not fail,
\* emits nothing for the absent metrics and emits for the others what it
\* emits when every metric of the sample is there.
C6_AbsentMetricSkipped ==
    IsReturned =>
        /\ ~outcome.raised
        /\ \A absent \in SUBSET RuleMetrics :
              LET o == detect_anomalies(Without(current_reading, absent),
                                        baseline_stats, config, last_alert_times)
              IN  /\ ~o.raised
                  /\ o.anomalies =
                       SelectSeq(outcome.anomalies, LAMBDA e : e.metric \notin absent)

-----------------------------------------------------------------------------
(* C7 *)

\* C7: in a call that returns, a reading of exactly 0 below the configured
\* minimum of its metric yields a guardrail event when the cooldown gate is
\* open.
C7_ZeroIsPresent ==
    HasReturnedList =>
        \A m \in RuleMetrics :
            (/\ ValueOf(current_reading, m) = Some(0)
             /\ 0 < MinOf(config, m)
             /\ GateOpen(last_alert_times, m, current_reading, config))
                => HasEvent(outcome.anomalies, m, "guardrail")

-----------------------------------------------------------------------------
(* C8 *)

\* The baseline has no entry (no median, no MAD) for the metric.
NoBaselineEntry(bs, m) == ~bs[MedKeyOf(m)].present /\ ~bs[MadKeyOf(m)].present

\* The baseline entries a metric may have.
EntriesFor(m) ==
    CASE m = "temp_f" -> TempEntries \ {NoEntries}
      [] m = "humidity" -> HumEntries \ {NoEntries}
      [] m = "lux" -> LuxEntries \ {NoEntries}
      [] m = "sound_rms" -> SoundEntries \ {NoEntries}

\* The baseline with the entry given for a metric it had none for.
WithEntry(bs, entry) ==
    [k \in BaselineKeys |-> IF k \in DOMAIN entry THEN Some(entry[k]) ELSE bs[k]]

-----------------------------------------------------------------------------
(* C1 *)

\* The cooldown of the session, from the rules the config table holds.
SessionCooldown == Cooldown(db_config.rules)

\* C1: in a session, any two anomaly events of the same metric that come from
\* different classification calls have timestamps more than cooldown_minutes
\* apart.
C1_CooldownAcrossCalls ==
    \A i, j \in 1..Len(calls) :
        i < j =>
          \A a \in 1..Len(calls[i]), b \in 1..Len(calls[j]) :
              calls[i][a].metric = calls[j][b].metric
                => calls[j][b].ts_utc.t - calls[i][a].ts_utc.t > SessionCooldown * 60

\* Two calls of one session have each emitted a temperature event, and both
\* lists have been handled.
C1_Witness ==
    /\ pc = "loop"
    /\ Len(calls) >= 2
    /\ HasEvent(calls[1], "temp_f", "guardrail")
    /\ HasEvent(calls[2], "temp_f", "guardrail")
    /\ Len(session_anomalies) = Len(calls[1]) + Len(calls[2])

-----------------------------------------------------------------------------
(* C9 *)

\* The store with the last-alert record of `key` removed.
WithoutRecord(db, key) == [db EXCEPT !.last_alert[key] = EmptyStr]

\* A step of the session is a classification call.
IsDetectStep == pc = "loop" /\ now' = now

\* C9: a classification call made while the stored last-alert record of a
\* metric is no timestamp returns what it would return with no record at all
\* for that metric (the gate passes, the call fails no more than without the
\* record), and handling an emitted event of a metric leaves that metric's
\* record holding the event's timestamp, so the corrupted record is
\* overwritten by the first later anomaly of the metric.
C9_UnparseableLastAlert ==
    [][ /\ IsDetectStep =>
              \A m \in Metrics :
                  db_config.last_alert[AlertKeyOf(m)] = BadStr =>
                    /\ anomalies' = detect_anomalies_in_window(
                                        WithoutRecord(db_config, AlertKeyOf(m)),
                                        current_reading')
                    /\ outcome' = detect_anomalies(
                                      current_reading', baseline_stats', config',
                                      [last_alert_times' EXCEPT ![AlertKeyOf(m)] = EmptyStr])
                    /\ (GuardrailDue(current_reading', m, config') /\ ~outcome'.raised
                          => HasEvent(anomalies', m, "guardrail"))
        /\ pc = "handle" =>
              \A i \in 1..Len(anomalies) :
                  db_config'.last_alert[AlertKeyOf(anomalies[i].metric)]
                      = anomalies[i].ts_utc
      ]_vars

\* A call that read an unparseable temperature record has emitted a
\* temperature event, and handling it has put the event's timestamp in place
\* of the record.
C9_Witness ==
    /\ pc = "loop"
    /\ last_alert_times["temp"] = BadStr
    /\ HasEvent(anomalies, "temp_f", "guardrail")
    /\ db_config.last_alert["temp"] = current_reading.ts_utc
    /\ HasEvent(db_anomalies, "temp_f", "guardrail")

-----------------------------------------------------------------------------
(* C10 *)

-----------------------------------------------------------------------------
(* handle_anomalies write by write, storage able to fail *)

\* The sample times of the lists handled.
HandleTimes == {600, 960, 1020}

\* The non-empty lists detect_anomalies_in_window returns on the session's
\* stores and readings.
HandleInputs(db) ==
    {detect_anomalies_in_window(db, r) :
        r \in UNION {SessionReadings(t) : t \in HandleTimes}} \ {<<>>}

\* handle_anomalies(anomalies) is entered with a non-empty list.
InitHandle ==
    /\ db_config \in SessionStores
    /\ anomalies \in HandleInputs(db_config)
    /\ pending = anomalies
    /\ pc = "insert"
    /\ now = 0
    /\ db_anomalies = <<>>
    /\ session_anomalies = <<>>
    /\ anomaly_count = 0
    /\ current_reading = NoReading
    /\ baseline_stats = DictOf(BaselineKeys, NoEntries)
    /\ config = DictOf(ConfigKeys, NoEntries)
    /\ last_alert_times = NoLastAlerts
    /\ outcome = Returned(<<>>)
    /\ calls = <<>>
    /\ readings = <<>>
    /\ baseline = NoEntries
    /\ minute_groups = <<>>
    /\ minute_stats = <<>>
    /\ IdleLoop

\* self.db.insert_anomaly(...) for the next anomaly of the list: the row is
\* committed, or execute/commit raises and "except Exception" ends the
\* handler.
InsertAnomaly ==
    /\ pc = "insert"
    /\ \E ok \in BOOLEAN :
          IF ok
          THEN /\ db_anomalies' = insert_anomaly(db_anomalies, Head(pending))
               /\ pc' = "set_config"
               /\ UNCHANGED pending
          ELSE /\ pc' = "loop"
               /\ pending' = <<>>
               /\ UNCHANGED db_anomalies
    /\ UNCHANGED <<current_reading, baseline_stats, config, last_alert_times, outcome,
                   now, db_config, session_anomalies, anomaly_count, anomalies, calls,
                   readings, baseline, minute_groups, minute_stats, loopVars>>

\* self.db.set_config('last_alert_<key>', anomaly['ts_utc']) for the anomaly
\* just inserted, in a commit of its own; it may raise like any write.
SetLastAlert ==
    /\ pc = "set_config"
    /\ \E ok \in BOOLEAN :
          IF ok
          THEN /\ db_config' = set_config_last_alert(db_config,
                                                     AlertKeyOf(Head(pending).metric),
                                                     Head(pending).ts_utc)
               /\ pending' = Tail(pending)
               /\ pc' = IF Tail(pending) = <<>> THEN "collect" ELSE "insert"
          ELSE /\ pc' = "loop"
               /\ pending' = <<>>
               /\ UNCHANGED db_config
    /\ UNCHANGED <<current_reading, baseline_stats, config, last_alert_times, outcome,
                   now, db_anomalies, session_anomalies, anomaly_count, anomalies, calls,
                   readings, baseline, minute_groups, minute_stats, loopVars>>

\* After the for loop: session_anomalies.extend(anomalies) and the count.
CollectAnomalies ==
    /\ pc = "collect"
    /\ session_anomalies' = session_anomalies \o anomalies
    /\ anomaly_count' = anomaly_count + Len(anomalies)
    /\ pc' = "loop"
    /\ UNCHANGED <<current_reading, baseline_stats, config, last_alert_times, outcome,
                   now, db_config, db_anomalies, anomalies, calls, calVars, loopVars>>

NextHandle == InsertAnomaly \/ SetLastAlert \/ CollectAnomalies

SpecHandle == InitHandle /\ [][NextHandle]_vars

-----------------------------------------------------------------------------
(* C11 *)

\* C11: once handle_anomalies has returned, every anomaly event in the
\* anomalies table has the last-alert record of its metric set to a
\* timestamp not earlier than the event's.
C11_AtomicCooldownUpdate ==
    pc = "loop" =>
        \A i \in 1..Len(db_anomalies) :
            LET rec == db_config.last_alert[AlertKeyOf(db_anomalies[i].metric)]
            IN  rec.k = "ts" /\ rec.t >= db_anomalies[i].ts_utc.t

-----------------------------------------------------------------------------
(* C12 *)

\* C12: with no baseline record stored no event is returned, and every
\* baseline statistic a classification call was passed is a statistic the
\* config table holds, with the stored value.
C12_NoInventedBaseline ==
    /\ ~get_baseline_config(db_config).found => anomalies = <<>>
    /\ \A k \in BaselineKeys :
          baseline_stats[k].present =>
              /\ db_config.baseline[k].present
              /\ baseline_stats[k].v = db_config.baseline[k].v

-----------------------------------------------------------------------------
(* stats_utils: the robust statistics of calibration *)

RECURSIVE Sum(_)
Sum(data) == IF data = <<>> THEN 0 ELSE Head(data) + Sum(Tail(data))

\* The square root, to the tenth below.
Isqrt(v) == CHOOSE k \in 0..v : k * k <= v /\ (k + 1) * (k + 1) > v

\* A variant of the median that takes the middle of the list as it is given.
median_unsorted(data) ==
    LET n == Len(data)
    IN  IF n % 2 = 1 THEN data[(n + 1) \div 2]
        ELSE (data[n \div 2] + data[n \div 2 + 1]) \div 2

\* np.median of a non-empty list: the middle value of the sorted list, the
\* mean of the two middle values when the length is even. The calibration
\* values of the model are multiples of 0.4, which keeps that mean, and the
\* mean of two deviations from it, a whole number of tenths.
median(data) ==
    LET sorted == SortSeq(data, LAMBDA a, b : a < b)
        n == Len(data)
    IN  IF n % 2 = 1 THEN sorted[(n + 1) \div 2]
        ELSE (sorted[n \div 2] + sorted[n \div 2 + 1]) \div 2

\* median_absolute_deviation(data): 0.0 on an empty list, else the median of
\* the absolute deviations from the median.
median_absolute_deviation(data) ==
    IF data = <<>> THEN 0
    ELSE LET m == median(data)
         IN  median([i \in 1..Len(data) |-> Abs(data[i] - m)])

\* np.std(data), the population standard deviation, to the tenth below:
\* sqrt((n * sum(d^2) - sum(d)^2) / n^2) over the differences d from the
\* first value, which have the deviations from the mean that the values have.
std(data) ==
    LET n == Len(data)
        d == [i \in 1..n |-> data[i] - data[1]]
        squares == [i \in 1..n |-> d[i] * d[i]]
    IN  Isqrt((n * Sum(squares) - Sum(d) * Sum(d)) \div (n * n))

\* [reading[c] for reading in readings if reading[c] is not None], on rows
\* that have the column.
ColumnValues(rows, col) ==
    LET kept == SelectSeq(rows, LAMBDA r : col \in DOMAIN r /\ r[col].present)
    IN  [i \in 1..Len(kept) |-> kept[i][col].v]

\* The (median, MAD, std) of one metric's values as
\* calculate_baseline_thresholds computes them: 0.0 for the median and the
\* MAD of an empty list, 0.0 for the std of fewer than two values.
RobustStats(values) ==
    [med |-> IF values # <<>> THEN median(values) ELSE 0,
     mad |-> IF values # <<>> THEN median_absolute_deviation(values) ELSE 0,
     std |-> IF Len(values) > 1 THEN std(values) ELSE 0]

\* A variant of calculate_baseline_thresholds that answers no rows as
\* calculate_minute_stats does, with statistics that are all 0.0.
calculate_baseline_thresholds_zeros(rows) ==
    IF rows = <<>> THEN [k \in BaselineKeys |-> 0]
    ELSE LET t == RobustStats(ColumnValues(rows, "temp_f"))
             h == RobustStats(ColumnValues(rows, "humidity"))
         IN  [temp_f_med |-> t.med, temp_f_mad |-> t.mad, temp_f_std |-> t.std,
              hum_med |-> h.med, hum_mad |-> h.mad, hum_std |-> h.std,
              lux_med |-> 0, lux_mad |-> 0, lux_std |-> 0,
              sound_med |-> 0, sound_mad |-> 0, sound_std |-> 0]

\* calculate_baseline_thresholds(readings): {} on no rows; light and sound
\* are looked at only when the first row has the column and a value in it.
calculate_baseline_thresholds(rows) ==
    IF rows = <<>> THEN NoEntries
    ELSE LET has_light == "lux" \in DOMAIN rows[1] /\ rows[1].lux.present
             has_sound == "sound_rms" \in DOMAIN rows[1] /\ rows[1].sound_rms.present
             t == RobustStats(ColumnValues(rows, "temp_f"))
             h == RobustStats(ColumnValues(rows, "humidity"))
             l == RobustStats(IF has_light THEN ColumnValues(rows, "lux") ELSE <<>>)
             sd == RobustStats(IF has_sound THEN ColumnValues(rows, "sound_rms")
                                            ELSE <<>>)
         IN  [temp_f_med |-> t.med, temp_f_mad |-> t.mad, temp_f_std |-> t.std,
              hum_med |-> h.med, hum_mad |-> h.mad, hum_std |-> h.std,
              lux_med |-> l.med, lux_mad |-> l.mad, lux_std |-> l.std,
              sound_med |-> sd.med, sound_mad |-> sd.mad, sound_std |-> sd.std]

-----------------------------------------------------------------------------
(* build_baseline.BaselineBuilder.run, then the start of run_detector *)

\* Rows of the readings table at most.
MaxCalRows == 3

\* Wall clock of the calibration run, seconds after the older baseline.
CalStart == 100

\* The rows calibration may find: a full row, a row of the BME280 alone, a
\* row of the light sensor and the microphone alone, a row without sound.
CalRowKinds ==
    {[ts_utc |-> Iso(0), temp_f |-> Some(700), humidity |-> Some(400),
      pressure |-> Some(10132), lux |-> Some(48), sound_rms |-> Some(300)],
     [ts_utc |-> Iso(0), temp_f |-> Some(704), humidity |-> Some(408),
      pressure |-> Some(10132), lux |-> NoneVal, sound_rms |-> NoneVal],
     [ts_utc |-> Iso(0), temp_f |-> NoneVal, humidity |-> NoneVal,
      pressure |-> NoneVal, lux |-> Some(52), sound_rms |-> Some(300)],
     [ts_utc |-> Iso(0), temp_f |-> Some(712), humidity |-> Some(400),
      pressure |-> Some(10132), lux |-> Some(52), sound_rms |-> NoneVal]}

\* The readings tables: up to MaxCalRows rows, one a second.
CalTables ==
    UNION {{[i \in 1..n |-> [kinds[i] EXCEPT !.ts_utc = Iso(i)]] :
                kinds \in [1..n -> CalRowKinds]} : n \in 0..MaxCalRows}

\* The config table before calibration: nothing stored, or the baseline of
\* an earlier calibration.
OldStore ==
    [EmptyStore EXCEPT
        !.baseline = DictOf(BaselineKeys,
                            [temp_f_med |-> 690, temp_f_mad |-> 11, temp_f_std |-> 15,
                             hum_med |-> 390, hum_mad |-> 11, hum_std |-> 15]),
        !.computed_at = Iso(0)]

CalStores == {EmptyStore, OldStore}

\* The set_config calls of store_baseline_config, in order.
BaselineWrites ==
    <<"temp_f_med", "temp_f_mad", "temp_f_std", "hum_med", "hum_mad", "hum_std",
      "computed_at">>

\* SELECT ts_utc, temp_f, humidity, pressure FROM readings ORDER BY ts_utc
get_calibration_data(table) ==
    [i \in 1..Len(table) |->
        [ts_utc |-> table[i].ts_utc, temp_f |-> table[i].temp_f,
         humidity |-> table[i].humidity, pressure |-> table[i].pressure]]

InitCal ==
    /\ readings \in CalTables
    /\ db_config \in CalStores
    /\ baseline = NoEntries
    /\ minute_groups = <<>>
    /\ minute_stats = <<>>
    /\ pending = <<>>
    /\ pc = "calibrate"
    /\ now = CalStart
    /\ db_anomalies = <<>>
    /\ session_anomalies = <<>>
    /\ anomaly_count = 0
    /\ anomalies = <<>>
    /\ current_reading = NoReading
    /\ baseline_stats = DictOf(BaselineKeys, NoEntries)
    /\ config = DictOf(ConfigKeys, NoEntries)
    /\ last_alert_times = NoLastAlerts
    /\ outcome = Returned(<<>>)
    /\ calls = <<>>
    /\ IdleLoop

\* BaselineBuilder.run up to "Step 4": return on an empty readings table,
\* on a retrieval or minute-statistics step that failed, and on an empty
\* baseline; else the baseline is computed and store_baseline_config begins.
ComputeBaseline ==
    /\ pc = "calibrate"
    /\ \E ok \in BOOLEAN :
          LET rows == IF ok THEN get_calibration_data(readings) ELSE <<>>
              computed == calculate_baseline_thresholds(rows)
          IN  IF Len(readings) = 0 \/ rows = <<>> \/ computed = NoEntries
              THEN /\ pc' = "calibrated"
                   /\ UNCHANGED <<baseline, pending>>
              ELSE /\ baseline' = computed
                   /\ pending' = BaselineWrites
                   /\ pc' = "store"
    /\ UNCHANGED <<sessionVars, readings, minute_groups, minute_stats, loopVars>>

\* One self.db.set_config of store_baseline_config, with its own commit; a
\* write that raises ends store_baseline_config in its "except Exception".
StoreBaselineKey ==
    /\ pc = "store"
    /\ \E ok \in BOOLEAN :
          IF ok
          THEN /\ db_config' =
                     IF Head(pending) = "computed_at"
                     THEN [db_config EXCEPT !.computed_at = Iso(now)]
                     ELSE [db_config EXCEPT
                              !.baseline[Head(pending)] = Some(baseline[Head(pending)])]
               /\ pending' = Tail(pending)
               /\ pc' = IF Tail(pending) = <<>> THEN "calibrated" ELSE "store"
          ELSE /\ pending' = <<>>
               /\ pc' = "calibrated"
               /\ UNCHANGED db_config
    /\ UNCHANGED <<current_reading, baseline_stats, config, last_alert_times, outcome,
                   now, db_anomalies, session_anomalies, anomaly_count, anomalies, calls,
                   readings, baseline, minute_groups, minute_stats, loopVars>>

\* run_detector.main after calibration: exit(1) when get_config of
\* baseline_temp_f_med finds nothing, else the detector is started.
MonitorStart ==
    /\ pc = "calibrated"
    /\ pc' = IF get_baseline_config(db_config).found THEN "monitoring" ELSE "refused"
    /\ UNCHANGED <<sessionVars, calVars, loopVars>>

NextCal == ComputeBaseline \/ StoreBaselineKey \/ MonitorStart

SpecCal == InitCal /\ [][NextCal]_vars

-----------------------------------------------------------------------------
(* C13 *)

\* Calibration is not running: it has not begun to store or has returned.
CalQuiescent == pc \in {"calibrated", "monitoring", "refused"}

\* The stored key holds a value of the calibration just run, not what the
\* config table held before it.
IsNewlyStored(k) ==
    IF k = "computed_at"
    THEN db_config.computed_at.k = "ts" /\ db_config.computed_at # OldStore.computed_at
    ELSE db_config.baseline[k].present /\ db_config.baseline[k] # OldStore.baseline[k]

\* C13: once store_baseline_config has returned, the stored baseline record
\* is whole: either every statistic and the computation timestamp are those
\* of the calibration just run, or none is.
C13_BaselineReplacedWhole ==
    CalQuiescent =>
        \/ \A i \in 1..Len(BaselineWrites) : IsNewlyStored(BaselineWrites[i])
        \/ \A i \in 1..Len(BaselineWrites) : ~IsNewlyStored(BaselineWrites[i])

-----------------------------------------------------------------------------
(* C14 *)

StdKeyOf(m) ==
    CASE m = "temp_f" -> "temp_f_std" [] m = "humidity" -> "hum_std"
      [] m = "lux" -> "lux_std" [] m = "sound_rms" -> "sound_std"

\* C14: after a calibration that stored its record, the record holds, for
\* every metric with a z-score rule that some calibration sample has a value
\* of, the median, the MAD and the standard deviation of all the values of
\* that metric in the readings table.
C14_BaselineCoversEveryMetric ==
    (CalQuiescent /\ db_config.computed_at = Iso(CalStart)) =>
        \A m \in RuleMetrics :
            LET values == ColumnValues(readings, m)
            IN  values # <<>> =>
                  /\ db_config.baseline[MedKeyOf(m)] = Some(RobustStats(values).med)
                  /\ db_config.baseline[MadKeyOf(m)] = Some(RobustStats(values).mad)
                  /\ db_config.baseline[StdKeyOf(m)] = Some(RobustStats(values).std)

-----------------------------------------------------------------------------
(* C15 *)

\* C15: the estimator returns the empty baseline on no rows; with an empty
\* readings table no step of calibration computes a baseline or writes to
\* the config table, and the start of monitoring that follows is refused
\* exactly when the table held no baseline before.
C15_EmptyCalibration ==
    [][ /\ calculate_baseline_thresholds(<<>>) = NoEntries
        /\ readings = <<>> =>
              /\ baseline' = NoEntries
              /\ db_config' = db_config
              /\ pc = "calibrated" =>
                    (pc' = "refused" <=> db_config.baseline = EmptyStore.baseline)
      ]_vars

\* Calibration found no reading, nothing was stored and the start of
\* monitoring was refused.
C15_Witness ==
    /\ pc = "refused"
    /\ readings = <<>>
    /\ baseline = NoEntries
    /\ minute_groups = <<>>
    /\ minute_stats = <<>>
    /\ db_config = EmptyStore

-----------------------------------------------------------------------------
(* store_reading and the rolling window, under a wall clock that moves *)

\* self.rolling_window_minutes
RollingWindowMinutes == 5

\* The wall clock stays within this many seconds, and this many readings
\* are stored at most.
MaxWindowSeconds == 400
MaxPushes == 4

\* Seconds the wall clock moves between two calls of store_reading (sensors
\* that fail for a while, or the clock set back), and between the two reads
\* of the clock within one call (the insert in between takes time, or the
\* clock is adjusted).
SleepSteps == {100, 200, -100}
ClockDrifts == {-1, 0, 1}

\* What the sensors read while the window is followed.
WindowReading ==
    [temp_f |-> Some(700), humidity |-> Some(400), pressure |-> Some(10132),
     lux |-> Some(48), sound_rms |-> NoneVal]

\* buffer_reading of store_reading: the reading under its timestamp.
BufferReading(ts, reading) ==
    [ts_utc |-> ts, temp_f |-> reading.temp_f, humidity |-> reading.humidity,
     pressure |-> reading.pressure, lux |-> reading.lux, sound_rms |-> reading.sound_rms]

\* DatabaseManager.insert_reading: INSERT OR REPLACE on the key ts_utc.
insert_reading(table, row) ==
    Append(SelectSeq(table, LAMBDA r : r.ts_utc # row.ts_utc), row)

\* [reading for reading in self.reading_buffer
\*  if datetime.fromisoformat(reading[0]) > cutoff_time]
KeepNewerThan(buffer, cutoff) ==
    SelectSeq(buffer, LAMBDA r : fromisoformat(r.ts_utc).t > cutoff)

InitWindow ==
    /\ now = 0
    /\ pc = "sample"
    /\ reading_buffer = <<>>
    /\ reading_count = 0
    /\ readings = <<>>
    /\ pushed = <<>>
    /\ db_open = TRUE
    /\ signals = <<>>
    /\ current_reading = NoReading
    /\ running = TRUE
    /\ email_enabled = FALSE
    /\ sink = <<>>
    /\ invocations = <<>>
    /\ pending = <<>>
    /\ baseline = NoEntries
    /\ minute_groups = <<>>
    /\ minute_stats = <<>>
    /\ db_config = EmptyStore
    /\ db_anomalies = <<>>
    /\ session_anomalies = <<>>
    /\ anomaly_count = 0
    /\ anomalies = <<>>
    /\ baseline_stats = DictOf(BaselineKeys, NoEntries)
    /\ config = DictOf(ConfigKeys, NoEntries)
    /\ last_alert_times = NoLastAlerts
    /\ outcome = Returned(<<>>)
    /\ calls = <<>>

\* Between two stored readings the wall clock moves.
ClockMoves ==
    /\ pc = "sample"
    /\ \E d \in SleepSteps :
          /\ now + d \in 0..MaxWindowSeconds
          /\ now' = now + d
    /\ UNCHANGED <<pc, current_reading, baseline_stats, config, last_alert_times,
                   outcome, db_config, db_anomalies, session_anomalies, anomaly_count,
                   anomalies, calls, calVars, loopVars>>

\* store_reading(reading): ts_utc is the wall clock now; the row is
\* inserted (an insert that raises ends the call in "except Exception",
\* nothing pushed or counted); the reading is appended to the buffer; the
\* cutoff is the wall clock read again, minus rolling_window_minutes; the
\* buffer keeps what is newer than the cutoff; reading_count += 1.
StoreReading ==
    /\ pc = "sample"
    /\ reading_count < MaxPushes
    /\ \E ok \in BOOLEAN, drift \in ClockDrifts :
          LET ts_utc == Iso(now)
              buffer_reading == BufferReading(ts_utc, WindowReading)
              cutoff_time == (now + drift) - RollingWindowMinutes * 60
          IN  /\ now + drift \in 0..MaxWindowSeconds
              /\ now' = now + drift
              /\ IF ok
                 THEN /\ readings' = insert_reading(readings, buffer_reading)
                      /\ reading_buffer' =
                            KeepNewerThan(Append(reading_buffer, buffer_reading),
                                          cutoff_time)
                      /\ reading_count' = reading_count + 1
                      /\ current_reading' = buffer_reading
                      /\ pushed' = Append(pushed, now)
                 ELSE /\ drift = 0
                      /\ UNCHANGED <<readings, reading_buffer, reading_count,
                                     current_reading, pushed>>
    /\ UNCHANGED <<pc, baseline_stats, config, last_alert_times, outcome, db_config,
                   db_anomalies, session_anomalies, anomaly_count, anomalies, calls,
                   pending, baseline, minute_groups, minute_stats, running, email_enabled, sink,
                   invocations, db_open, signals>>

NextWindow == ClockMoves \/ StoreReading

SpecWindow == InitWindow /\ [][NextWindow]_vars

-----------------------------------------------------------------------------
(* Claims about the rolling window *)

\* The horizon H of the window, in seconds.
Horizon == RollingWindowMinutes * 60

\* The timestamps of the buffer's entries, in the buffer's order.
TimesOf(buffer) == [i \in 1..Len(buffer) |-> buffer[i].ts_utc.t]

NonDecreasing(ts) == \A i, j \in 1..Len(ts) : i < j => ts[i] <= ts[j]

IsSuffixOf(s1, s2) ==
    /\ Len(s1) <= Len(s2)
    /\ \A i \in 1..Len(s1) : s1[i] = s2[Len(s2) - Len(s1) + i]

MaxOfSeq(ts) == CHOOSE m \in {ts[i] : i \in 1..Len(ts)} : \A i \in 1..Len(ts) : ts[i] <= m

\* A step of store_reading that stored and pushed a sample.
IsStored == pc = "sample" /\ reading_count' = reading_count + 1

\* C16: after a sample with timestamp t is pushed, the buffer holds exactly
\* the samples held before plus the new one whose timestamps are newer than
\* t - H, whatever the wall clock reads when the eviction runs.
C16_EvictionBySampleTime ==
    [][IsStored =>
        reading_buffer' = KeepNewerThan(Append(reading_buffer, current_reading'),
                                        current_reading'.ts_utc.t - Horizon)]_vars

\* C17: after a store_reading, when the samples pushed so far have
\* non-decreasing timestamps, the buffer is in non-decreasing timestamp
\* order, holds no sample older than the horizon counted from the pushed
\* sample, and is a contiguous suffix of the pushed sequence.
C17_SortedPrefixTrim ==
    [][(IsStored /\ NonDecreasing(pushed')) =>
        /\ NonDecreasing(TimesOf(reading_buffer'))
        /\ \A i \in 1..Len(reading_buffer') :
              reading_buffer'[i].ts_utc.t > current_reading'.ts_utc.t - Horizon
        /\ IsSuffixOf(TimesOf(reading_buffer'), pushed')]_vars

\* C18: once a sample has been pushed with a timestamp lower than an
\* earlier one, the buffer holds no entry older than the horizon counted
\* from the maximum timestamp pushed so far.
C18_TrimByMaxSeen ==
    (\E i, j \in 1..Len(pushed) : i < j /\ pushed[j] < pushed[i]) =>
        \A k \in 1..Len(reading_buffer) :
            reading_buffer[k].ts_utc.t > MaxOfSeq(pushed) - Horizon

-----------------------------------------------------------------------------
(* run(): the sampling loop from its first iteration to shutdown *)

\* if self.reading_count % 30 == 0
CheckEvery == 30
\* if len(self.reading_buffer) < 10: return []
MinWindowReadings == 10

\* The loop is followed for this many iterations of one second each, and
\* in at most this many of them no reading is stored (read_sensors returns
\* None, or the insert raises).
MaxIterations == 32
MaxFaults == 1

\* The config table of the session: the baseline of an earlier calibration,
\* every rule at its default, no alert so far.
LoopStore ==
    [EmptyStore EXCEPT
        !.baseline = DictOf(BaselineKeys, [temp_f_med |-> 700, temp_f_mad |-> 10,
                                           temp_f_std |-> 15, hum_med |-> 400,
                                           hum_mad |-> 10, hum_std |-> 15]),
        !.computed_at = Iso(0)]

\* What read_sensors returns for the reading that would be stored as the
\* n-th: 70.0 F and 40 % from the BME280, no light sensor and no
\* microphone; a reading that completes a group of 30 may also be 95.0 F.
LoopReadings(n) ==
    {[temp_f |-> Some(t), humidity |-> Some(400), pressure |-> Some(10132),
      lux |-> NoneVal, sound_rms |-> NoneVal] :
        t \in IF n % CheckEvery = 0 THEN {700, 950} ELSE {700}}

\* _prepare_sensor_context: the buffer's tuples as dicts.
prepare_sensor_context(buffer) ==
    [i \in 1..Len(buffer) |->
        [timestamp |-> buffer[i].ts_utc, temp_f |-> buffer[i].temp_f,
         humidity |-> buffer[i].humidity, pressure |-> buffer[i].pressure,
         lux |-> buffer[i].lux, sound_rms |-> buffer[i].sound_rms]]

\* A variant that evaluates the oldest entry of the buffer.
OldestReading(buffer) ==
    IF Len(buffer) < MinWindowReadings THEN NoneVal ELSE Some(buffer[1])

\* What detect_anomalies_in_window evaluates: nothing below 10 readings in
\* the buffer, else self.reading_buffer[-1].
LatestReading(buffer) ==
    IF Len(buffer) < MinWindowReadings THEN NoneVal ELSE Some(buffer[Len(buffer)])

\* detect_anomalies_in_window() on the buffer as it is.
WindowCheck(buffer, db) ==
    IF Len(buffer) < MinWindowReadings THEN <<>>
    ELSE detect_anomalies_in_window(db, buffer[Len(buffer)])

\* run() has passed its baseline and sensor checks and set running = True.
InitLoop ==
    /\ now = 0
    /\ pc = "loop"
    /\ running = TRUE
    /\ email_enabled \in BOOLEAN
    /\ reading_buffer = <<>>
    /\ reading_count = 0
    /\ sink = <<>>
    /\ invocations = <<>>
    /\ pushed = <<>>
    /\ db_open = TRUE
    /\ signals = <<>>
    /\ IdleCal
    /\ db_config = LoopStore
    /\ db_anomalies = <<>>
    /\ session_anomalies = <<>>
    /\ anomaly_count = 0
    /\ anomalies = <<>>
    /\ current_reading = NoReading
    /\ baseline_stats = DictOf(BaselineKeys, NoEntries)
    /\ config = DictOf(ConfigKeys, NoEntries)
    /\ last_alert_times = NoLastAlerts
    /\ outcome = Returned(<<>>)
    /\ calls = <<>>

\* One pass of "while self.running": read_sensors; "if reading:"
\* store_reading (which swallows a failing insert), then
\* "if self.reading_count % 30 == 0" detect_anomalies_in_window and
\* "if anomalies:" handle_anomalies, whose writes are the steps
\* InsertAnomaly, SetLastAlert and CollectAnomalies; time.sleep(1).
LoopIteration ==
    /\ pc = "loop"
    /\ running
    /\ now < MaxIterations
    /\ \E got \in BOOLEAN, ok \in BOOLEAN :
       \E reading \in LoopReadings(reading_count + 1) :
          LET stored == got /\ ok
              buffer_reading == BufferReading(Iso(now), reading)
              buffer == IF stored
                        THEN KeepNewerThan(Append(reading_buffer, buffer_reading),
                                           now - RollingWindowMinutes * 60)
                        ELSE reading_buffer
              count == IF stored THEN reading_count + 1 ELSE reading_count
              checked == got /\ count % CheckEvery = 0
              returned == IF checked THEN WindowCheck(buffer, db_config) ELSE <<>>
          IN  /\ ~stored => now - reading_count < MaxFaults
              /\ ~got => ok
              /\ ~stored => reading.temp_f = Some(700)   \* its values go nowhere
              /\ reading_buffer' = buffer
              /\ reading_count' = count
              /\ readings' = IF stored THEN insert_reading(readings, buffer_reading)
                             ELSE readings
              /\ pushed' = IF stored THEN Append(pushed, now) ELSE pushed
              /\ invocations' =
                    IF checked
                    THEN Append(invocations, [reading_count |-> count,
                                              latest_reading |-> LatestReading(buffer)])
                    ELSE invocations
              /\ anomalies' = returned
              /\ pending' = returned
              /\ pc' = IF returned # <<>> THEN "insert" ELSE "loop"
    /\ now' = now + 1
    /\ UNCHANGED <<current_reading, baseline_stats, config, last_alert_times, outcome,
                   db_config, db_anomalies, session_anomalies, anomaly_count, calls,
                   baseline, minute_groups, minute_stats, running, email_enabled, sink,
                   db_open, signals>>

\* _signal_handler on SIGINT or SIGTERM, at any point of the loop.
SignalHandler ==
    /\ pc \in {"loop", "insert", "set_config", "collect"}
    /\ running
    /\ running' = FALSE
    /\ signals' = Append(signals, [pc |-> pc, running |-> running, now |-> now])
    /\ UNCHANGED <<pc, sessionVars, calVars, reading_buffer, reading_count,
                   email_enabled, sink, invocations, pushed, db_open>>

\* An exception escapes the loop body ("except Exception" of run()).
LoopRaises ==
    /\ pc = "loop"
    /\ running
    /\ pc' = "finally"
    /\ UNCHANGED <<sessionVars, calVars, loopVars>>

\* A variant of shutdown that always sends the no-anomaly summary.
ShutdownSummaryOnly ==
    /\ pc = "finally" \/ (pc = "loop" /\ ~running)
    /\ \E delivered \in BOOLEAN :
          sink' = IF email_enabled
                  THEN Append(sink, [kind |-> "no_anomaly", anomalies |-> <<>>,
                                     sensor_context |-> <<>>, success |-> delivered])
                  ELSE sink
    /\ db_open' = FALSE
    /\ pc' = "done"
    /\ UNCHANGED <<sessionVars, calVars, reading_buffer, reading_count, running,
                   email_enabled, invocations, pushed, signals>>

\* "finally: self.shutdown()", reached when the loop condition is false or
\* an exception left the loop. With the email manager enabled:
\* send_batch_anomaly_alert(session_anomalies, sensor_context) if
\* session_anomalies, else send_no_anomaly_alert(); either returns whether
\* the mail went out and raises nothing.
Shutdown ==
    /\ pc = "finally" \/ (pc = "loop" /\ ~running)
    /\ \E delivered \in BOOLEAN :
          sink' = IF ~email_enabled THEN sink
                  ELSE IF session_anomalies # <<>>
                  THEN Append(sink, [kind |-> "batch", anomalies |-> session_anomalies,
                                     sensor_context |->
                                         prepare_sensor_context(reading_buffer),
                                     success |-> delivered])
                  ELSE Append(sink, [kind |-> "no_anomaly", anomalies |-> <<>>,
                                     sensor_context |-> <<>>, success |-> delivered])
    /\ db_open' = FALSE
    /\ pc' = "done"
    /\ UNCHANGED <<sessionVars, calVars, reading_buffer, reading_count, running,
                   email_enabled, invocations, pushed, signals>>

NextLoop ==
    \/ LoopIteration
    \/ InsertAnomaly
    \/ SetLastAlert
    \/ CollectAnomalies
    \/ SignalHandler
    \/ LoopRaises
    \/ Shutdown

SpecLoop == InitLoop /\ [][NextLoop]_vars

-----------------------------------------------------------------------------
(* Claims about the sampling loop *)

\* A step that is one pass of the loop.
IsIteration == pc = "loop" /\ now' = now + 1

\* C19: a pass of the loop calls the classification when and only when it
\* has just stored and pushed a sample and the count of stored samples has
\* become a multiple of 30; the call evaluates the last entry of the
\* window; no other step calls it.
C19_OncePerThirtySamples ==
    [][/\ IsIteration =>
            /\ Len(invocations') \in {Len(invocations), Len(invocations) + 1}
            /\ (Len(invocations') = Len(invocations) + 1) <=>
                   (reading_count' = reading_count + 1 /\ reading_count' % CheckEvery = 0)
            /\ (Len(invocations') = Len(invocations) + 1) =>
                   /\ reading_buffer' # <<>>
                   /\ invocations'[Len(invocations')].latest_reading =
                          Some(reading_buffer'[Len(reading_buffer')])
       /\ ~IsIteration => invocations' = invocations]_vars

\* C20: nothing is flushed before shutdown; a session that has ended with
\* the sink enabled has flushed exactly once: the batch of every anomaly
\* accumulated, with the window's snapshot, if there is one, and the
\* no-anomaly signal otherwise; with the sink disabled nothing is flushed.
C20_OneFlushAtShutdown ==
    /\ pc # "done" => sink = <<>>
    /\ (pc = "done" /\ ~email_enabled) => sink = <<>>
    /\ (pc = "done" /\ email_enabled) =>
          /\ Len(sink) = 1
          /\ IF session_anomalies # <<>>
             THEN /\ sink[1].kind = "batch"
                  /\ sink[1].anomalies = session_anomalies
                  /\ sink[1].sensor_context = prepare_sensor_context(reading_buffer)
             ELSE sink[1].kind = "no_anomaly"

\* A session that classified an out-of-range reading, stored its events and
\* was then stopped by a signal has flushed them as one batch.
C20_Witness ==
    /\ pc = "done"
    /\ email_enabled
    /\ ~running
    /\ Len(session_anomalies) >= 1
    /\ Len(sink) = 1
    /\ sink[1].kind = "batch"
    /\ Len(sink[1].sensor_context) >= MinWindowReadings

-----------------------------------------------------------------------------
(* run() statement by statement, with signals delivered between statements *)

\* The loop is followed for this many passes and this many signals.
MaxPasses == 3
MaxSignals == 2

\* __init__ has installed _signal_handler and main() has called run().
InitRun ==
    /\ now = 0
    /\ pc = "start"
    /\ running = FALSE
    /\ email_enabled \in BOOLEAN
    /\ reading_buffer = <<>>
    /\ reading_count = 0
    /\ sink = <<>>
    /\ invocations = <<>>
    /\ pushed = <<>>
    /\ db_open = TRUE
    /\ signals = <<>>
    /\ IdleCal
    /\ db_config \in {LoopStore, EmptyStore}
    /\ db_anomalies = <<>>
    /\ session_anomalies = <<>>
    /\ anomaly_count = 0
    /\ anomalies = <<>>
    /\ current_reading = NoReading
    /\ baseline_stats = DictOf(BaselineKeys, NoEntries)
    /\ config = DictOf(ConfigKeys, NoEntries)
    /\ last_alert_times = NoLastAlerts
    /\ outcome = Returned(<<>>)
    /\ calls = <<>>

\* run() up to the loop: return without a baseline or without any sensor,
\* else self.running = True.
RunStart ==
    /\ pc = "start"
    /\ \E sensors \in BOOLEAN :
          IF get_baseline_config(db_config).found /\ sensors
          THEN running' = TRUE /\ pc' = "while"
          ELSE pc' = "returned" /\ UNCHANGED running
    /\ UNCHANGED <<sessionVars, calVars, reading_buffer, reading_count, email_enabled,
                   sink, invocations, pushed, db_open, signals>>

\* A variant of the loop test that does not read the flag: while True.
WhileTrue ==
    /\ pc = "while"
    /\ now < MaxPasses
    /\ pc' = "body"
    /\ UNCHANGED <<sessionVars, calVars, loopVars>>

\* while self.running:
WhileRunning ==
    /\ pc = "while"
    /\ IF running THEN now < MaxPasses /\ pc' = "body" ELSE pc' = "finally"
    /\ UNCHANGED <<sessionVars, calVars, loopVars>>

\* The body of the loop up to the sleep, as in LoopIteration, with storage
\* of the anomalies working; or an exception that leaves the loop.
LoopBody ==
    /\ pc = "body"
    /\ \E got \in BOOLEAN, ok \in BOOLEAN, raises \in BOOLEAN :
       \E reading \in LoopReadings(reading_count + 1) :
          LET stored == got /\ ok /\ ~raises
              buffer_reading == BufferReading(Iso(now), reading)
              buffer == IF stored
                        THEN KeepNewerThan(Append(reading_buffer, buffer_reading),
                                           now - RollingWindowMinutes * 60)
                        ELSE reading_buffer
              count == IF stored THEN reading_count + 1 ELSE reading_count
              checked == got /\ ~raises /\ count % CheckEvery = 0
              returned == IF checked THEN WindowCheck(buffer, db_config) ELSE <<>>
              handled == StoreAnomalies(returned, db_config, db_anomalies)
          IN  /\ (~got \/ raises) => ok
              /\ raises => ~got
              /\ reading_buffer' = buffer
              /\ reading_count' = count
              /\ readings' = IF stored THEN insert_reading(readings, buffer_reading)
                             ELSE readings
              /\ pushed' = IF stored THEN Append(pushed, now) ELSE pushed
              /\ invocations' =
                    IF checked
                    THEN Append(invocations, [reading_count |-> count,
                                              latest_reading |-> LatestReading(buffer)])
                    ELSE invocations
              /\ anomalies' = returned
              /\ db_config' = handled.db
              /\ db_anomalies' = handled.log
              /\ session_anomalies' = session_anomalies \o returned
              /\ anomaly_count' = anomaly_count + Len(returned)
              /\ pc' = IF raises THEN "finally" ELSE "sleep"
    /\ UNCHANGED <<now, current_reading, baseline_stats, config, last_alert_times,
                   outcome, calls, pending, baseline, minute_groups, minute_stats,
                   running, email_enabled, sink, db_open, signals>>

\* time.sleep(1); a signal handled during the sleep does not cut it short.
Sleep ==
    /\ pc = "sleep"
    /\ now' = now + 1
    /\ pc' = "while"
    /\ UNCHANGED <<current_reading, baseline_stats, config, last_alert_times, outcome,
                   db_config, db_anomalies, session_anomalies, anomaly_count, anomalies,
                   calls, calVars, loopVars>>

\* SIGINT or SIGTERM between two statements of run(): self.running = False.
SignalDelivered ==
    /\ pc \in {"start", "while", "body", "sleep", "finally"}
    /\ Len(signals) < MaxSignals
    /\ running' = FALSE
    /\ signals' = Append(signals, [pc |-> pc, running |-> running, now |-> now])
    /\ UNCHANGED <<pc, sessionVars, calVars, reading_buffer, reading_count,
                   email_enabled, sink, invocations, pushed, db_open>>

\* finally: self.shutdown(), the flush of Shutdown and self.db.close().
RunShutdown ==
    /\ pc = "finally"
    /\ \E delivered \in BOOLEAN :
          sink' = IF ~email_enabled THEN sink
                  ELSE IF session_anomalies # <<>>
                  THEN Append(sink, [kind |-> "batch", anomalies |-> session_anomalies,
                                     sensor_context |->
                                         prepare_sensor_context(reading_buffer),
                                     success |-> delivered])
                  ELSE Append(sink, [kind |-> "no_anomaly", anomalies |-> <<>>,
                                     sensor_context |-> <<>>, success |-> delivered])
    /\ db_open' = FALSE
    /\ pc' = "done"
    /\ UNCHANGED <<sessionVars, calVars, reading_buffer, reading_count, running,
                   email_enabled, invocations, pushed, signals>>

NextRun ==
    \/ RunStart
    \/ WhileRunning
    \/ LoopBody
    \/ Sleep
    \/ SignalDelivered
    \/ RunShutdown

SpecRun == InitRun /\ [][NextRun]_vars

\* The interpreter keeps executing run(): its next statement is always
\* taken in the end. No signal is ever bound to arrive.
ProgramStep == RunStart \/ WhileRunning \/ LoopBody \/ Sleep \/ RunShutdown

SpecRunFair == SpecRun /\ WF_vars(ProgramStep)

-----------------------------------------------------------------------------
(* Claims about cancellation *)

\* The signals that found the loop running.
SignalsInLoop == {i \in 1..Len(signals) : signals[i].running}

\* The pass in progress when a signal arrived: none yet at the loop test.
PassInProgress(sig) == IF sig.pc = "while" THEN sig.now - 1 ELSE sig.now

\* C21: after a signal that found the loop running, no sample is stored in
\* a pass later than the one in progress; run() then reaches the end of
\* shutdown, where the flush has been made and the storage is closed.
C21_CooperativeCancellation ==
    /\ [](\A i \in SignalsInLoop : \A j \in 1..Len(pushed) :
            pushed[j] <= PassInProgress(signals[i]))
    /\ [](pc = "done" => ~db_open /\ (email_enabled => Len(sink) = 1))
    /\ (SignalsInLoop # {}) ~> (pc = "done")

\* A signal arrived during the sleep of a pass that had stored a sample,
\* and run() has ended flushed and closed.
C21_Witness ==
    /\ pc = "done"
    /\ \E i \in SignalsInLoop : signals[i].pc = "sleep" /\ signals[i].now \in
                                     {pushed[j] : j \in 1..Len(pushed)}
    /\ ~db_open
    /\ email_enabled
    /\ Len(sink) = 1

\* C28: once a signal has been delivered, at whatever statement of run(),
\* no further pass of the loop is started.
C28_SignalNeverLost ==
    [][(pc = "while" /\ signals # <<>>) => pc' # "body"]_vars

-----------------------------------------------------------------------------
(* stats_utils: the per-minute statistics *)

\* A variant of the key that rounds to the nearest minute.
MinuteKeyNearest(ts_utc) ==
    LET dt == fromisoformat(ts_utc).t + 30
    IN  Iso(dt - (dt % 60))

\* dt.replace(second=0, microsecond=0).isoformat() of a timestamp the
\* readings table holds.
MinuteKey(ts_utc) ==
    LET dt == fromisoformat(ts_utc).t
    IN  Iso(dt - (dt % 60))

\* aggregate_readings_to_minutes(readings): the dict as the sequence of its
\* items [minute_key, readings] in insertion order. Every ts_utc of the
\* table was written by isoformat() and parses.
RECURSIVE AggregateInto(_, _)
AggregateInto(groups, rows) ==
    IF rows = <<>> THEN groups
    ELSE LET reading == Head(rows)
             minute_key == MinuteKey(reading.ts_utc)
             at == {i \in 1..Len(groups) : groups[i].minute_key = minute_key}
         IN  IF at = {}
             THEN AggregateInto(Append(groups, [minute_key |-> minute_key,
                                                readings |-> <<reading>>]),
                                Tail(rows))
             ELSE AggregateInto([i \in 1..Len(groups) |->
                                    IF i \in at
                                    THEN [groups[i] EXCEPT
                                             !.readings = Append(@, reading)]
                                    ELSE groups[i]],
                                Tail(rows))

aggregate_readings_to_minutes(rows) == AggregateInto(<<>>, rows)

\* calculate_minute_stats(readings): all 0.0 and rows 0 on no readings;
\* light and sound are looked at only when the first reading has a value.
calculate_minute_stats(rows) ==
    IF rows = <<>> THEN [k \in BaselineKeys |-> 0] @@ [rows |-> 0]
    ELSE LET has_light == "lux" \in DOMAIN rows[1] /\ rows[1].lux.present
             has_sound == "sound_rms" \in DOMAIN rows[1] /\ rows[1].sound_rms.present
             t == RobustStats(ColumnValues(rows, "temp_f"))
             h == RobustStats(ColumnValues(rows, "humidity"))
             l == RobustStats(IF has_light THEN ColumnValues(rows, "lux") ELSE <<>>)
             sd == RobustStats(IF has_sound THEN ColumnValues(rows, "sound_rms")
                                            ELSE <<>>)
         IN  [temp_f_med |-> t.med, temp_f_mad |-> t.mad, temp_f_std |-> t.std,
              hum_med |-> h.med, hum_mad |-> h.mad, hum_std |-> h.std,
              lux_med |-> l.med, lux_mad |-> l.mad, lux_std |-> l.std,
              sound_med |-> sd.med, sound_mad |-> sd.mad, sound_std |-> sd.std,
              rows |-> Len(rows)]

\* Readings per list at most, and the seconds their timestamps are drawn
\* from: 00:00:30, 00:00:59 and 00:01:00.
MaxStatsRows == 3
StatsTimes == {30, 59, 60}

\* The lists the functions are applied to, in any order of timestamps.
StatsTables ==
    UNION {{[i \in 1..n |-> [kinds[i] EXCEPT !.ts_utc = Iso(times[i])]] :
                kinds \in [1..n -> CalRowKinds], times \in [1..n -> StatsTimes]} :
           n \in 0..MaxStatsRows}

\* 90 readings, one a second from 01:00:00 to 01:01:29.
NinetySamples ==
    [i \in 1..90 |->
        [ts_utc |-> Iso(3600 + i - 1), temp_f |-> Some(700), humidity |-> Some(400),
         pressure |-> Some(10132), lux |-> Some(48), sound_rms |-> NoneVal]]

InitStats ==
    /\ readings \in StatsTables \cup {NinetySamples}
    /\ pc = "readings"
    /\ minute_groups = <<>>
    /\ minute_stats = <<>>
    /\ baseline = NoEntries
    /\ pending = <<>>
    /\ now = 0
    /\ db_config = EmptyStore
    /\ db_anomalies = <<>>
    /\ session_anomalies = <<>>
    /\ anomaly_count = 0
    /\ anomalies = <<>>
    /\ current_reading = NoReading
    /\ baseline_stats = DictOf(BaselineKeys, NoEntries)
    /\ config = DictOf(ConfigKeys, NoEntries)
    /\ last_alert_times = NoLastAlerts
    /\ outcome = Returned(<<>>)
    /\ calls = <<>>
    /\ IdleLoop

\* minute_groups = aggregate_readings_to_minutes(readings)
Aggregate ==
    /\ pc = "readings"
    /\ minute_groups' = aggregate_readings_to_minutes(readings)
    /\ pc' = "grouped"
    /\ UNCHANGED <<sessionVars, pending, readings, baseline, minute_stats, loopVars>>

\* stats = calculate_minute_stats(minute_readings) for every group
MinuteStats ==
    /\ pc = "grouped"
    /\ minute_stats' = [i \in 1..Len(minute_groups) |->
                           calculate_minute_stats(minute_groups[i].readings)]
    /\ pc' = "minutes"
    /\ UNCHANGED <<sessionVars, pending, readings, baseline, minute_groups, loopVars>>

\* baseline = calculate_baseline_thresholds(readings)
BaselineThresholds ==
    /\ pc = "minutes"
    /\ baseline' = calculate_baseline_thresholds(readings)
    /\ pc' = "thresholds"
    /\ UNCHANGED <<sessionVars, pending, readings, minute_groups, minute_stats,
                   loopVars>>

NextStats == Aggregate \/ MinuteStats \/ BaselineThresholds

SpecStats == InitStats /\ [][NextStats]_vars

-----------------------------------------------------------------------------
(* Claims about the statistics *)

\* Where a minute first occurs in the input.
FirstIndexOf(key) ==
    CHOOSE i \in 1..Len(readings) :
        /\ readings[i].ts_utc.t \div 60 = key.t \div 60
        /\ \A j \in 1..(i - 1) : readings[j].ts_utc.t \div 60 # key.t \div 60

\* C22: the buckets partition the input: the keys are distinct whole
\* minutes, a bucket holds exactly the samples of its minute, in input
\* order, so the sizes and the row counts sum to the number of samples; the
\* buckets are in order of first occurrence; the 90 samples from 01:00:00
\* to 01:01:29 give the buckets 01:00:00 and 01:01:00 of 60 and 30 rows.
C22_MinutePartition ==
    pc \in {"grouped", "minutes", "thresholds"} =>
        LET g == minute_groups
            n == Len(g)
        IN  /\ \A i, j \in 1..n : i # j => g[i].minute_key # g[j].minute_key
            /\ \A i \in 1..n :
                  /\ g[i].minute_key.k = "ts"
                  /\ g[i].minute_key.t % 60 = 0
                  /\ g[i].readings # <<>>
                  /\ g[i].readings =
                        SelectSeq(readings,
                                  LAMBDA r : r.ts_utc.t - (r.ts_utc.t % 60)
                                                = g[i].minute_key.t)
            /\ Sum([i \in 1..n |-> Len(g[i].readings)]) = Len(readings)
            /\ \A i, j \in 1..n :
                  i < j => FirstIndexOf(g[i].minute_key) < FirstIndexOf(g[j].minute_key)
            /\ pc # "grouped" =>
                  /\ Len(minute_stats) = n
                  /\ \A i \in 1..n : minute_stats[i].rows = Len(g[i].readings)
                  /\ Sum([i \in 1..n |-> minute_stats[i].rows]) = Len(readings)
            /\ readings = NinetySamples =>
                  /\ n = 2
                  /\ g[1].minute_key = Iso(3600) /\ Len(g[1].readings) = 60
                  /\ g[2].minute_key = Iso(3660) /\ Len(g[2].readings) = 30

\* The 90 samples have been split into their two buckets and counted.
C22_Witness ==
    /\ pc = "minutes"
    /\ readings = NinetySamples
    /\ Len(minute_groups) = 2
    /\ minute_stats[1].rows + minute_stats[2].rows = 90

\* The column of a metric and the keys of its statistics.
ColumnOf(m) == IF m = "sound" THEN "sound_rms" ELSE IF m = "temp" THEN "temp_f" ELSE m
StatsKeyOf(m) == IF m = "temp" THEN "temp_f" ELSE IF m = "humidity" THEN "hum" ELSE m

\* The (median, MAD, std) a dict of statistics holds for a metric.
TripleOf(stats, m) ==
    [med |-> stats[StatsKeyOf(m) \o "_med"], mad |-> stats[StatsKeyOf(m) \o "_mad"],
     std |-> stats[StatsKeyOf(m) \o "_std"]]

StatsMetrics == {"temp", "humidity", "lux", "sound"}

\* C23: the statistics of every metric, per bucket and for the baseline,
\* are those of exactly the samples in which the metric is present, zero
\* when there is none, whatever the first sample holds.
C23_StatsOverPresentSamples ==
    pc = "thresholds" =>
        /\ \A i \in 1..Len(minute_groups) : \A m \in StatsMetrics :
              TripleOf(minute_stats[i], m) =
                  RobustStats(ColumnValues(minute_groups[i].readings, ColumnOf(m)))
        /\ readings # <<>> =>
              \A m \in StatsMetrics :
                  TripleOf(baseline, m) = RobustStats(ColumnValues(readings, ColumnOf(m)))

\* The rearrangements of a list.
PermutationsOf(data) ==
    LET n == Len(data)
    IN  {[i \in 1..n |-> data[f[i]]] :
            f \in {h \in [1..n -> 1..n] : \A a, b \in 1..n : a # b => h[a] # h[b]}}

\* C26: for every metric's values in the input, the median and the MAD of
\* every rearrangement are those of the list (lists of the enumerated
\* length), and the MAD of a list of one repeated value is 0.
C26_PermutationInvariant ==
    \A m \in StatsMetrics :
        LET data == ColumnValues(readings, ColumnOf(m))
        IN  data # <<>> =>
              /\ Len(data) <= MaxStatsRows =>
                    \A perm \in PermutationsOf(data) :
                        /\ median(perm) = median(data)
                        /\ median_absolute_deviation(perm) =
                              median_absolute_deviation(data)
              /\ (\A i \in 1..Len(data) : data[i] = data[1]) =>
                    median_absolute_deviation(data) = 0

\* The statistics of three temperatures given out of order, 71.2, 70.0 and
\* 70.4, have been computed: median 70.4, MAD 0.4.
C26_Witness ==
    /\ pc = "thresholds"
    /\ ColumnValues(readings, "temp_f") = <<712, 700, 704>>
    /\ baseline.temp_f_med = 704
    /\ baseline.temp_f_mad = 4

-----------------------------------------------------------------------------
(* C24 *)

EventMetrics == {"temp_f", "humidity", "lux", "sound_rms"}
EventRules == {"robust_z_score", "guardrail"}

NoPressureEvent(events) ==
    \A i \in 1..Len(events) :
        events[i].metric \in EventMetrics /\ events[i].rule \in EventRules

\* C24: no event of a session is for pressure: what a classification call
\* returns, what is stored and what is collected has a metric among temp_f,
\* humidity, lux and sound_rms and a rule among robust_z_score and
\* guardrail, and the last-alert record of pressure stays unwritten.
C24_NoPressureEvent ==
    /\ ~outcome.raised => NoPressureEvent(outcome.anomalies)
    /\ NoPressureEvent(anomalies)
    /\ NoPressureEvent(db_anomalies)
    /\ NoPressureEvent(session_anomalies)
    /\ db_config.last_alert["pressure"] = EmptyStr

\* A reading with a pressure value was classified, its events were stored
\* and their last-alert records written.
C24_Witness ==
    /\ pc = "loop"
    /\ ~IsNone(current_reading.pressure)
    /\ anomalies # <<>>
    /\ db_anomalies # <<>>
    /\ \E k \in AlertKeys \ {"pressure"} : db_config.last_alert[k] = current_reading.ts_utc

-----------------------------------------------------------------------------
(* C25 *)

RocKeys == {"temp_roc_limit", "humidity_roc_limit", "lux_roc_limit", "sound_roc_limit"}

\* A rate-of-change limit: not configured, or 0.0, or 100.0.
RocLimits == {NoneVal, Some(0), Some(1000)}

\* The config with its rate-of-change limits replaced.
WithRoc(cfg, limits) ==
    [k \in ConfigKeys |-> IF k \in RocKeys THEN limits[k] ELSE cfg[k]]

\* The configs that differ from the call's in their rate-of-change limits
\* only: every choice of two of the limits, the other two being equal.
RocVariants(cfg) ==
    {WithRoc(cfg, [k \in RocKeys |->
                      IF k \in {"temp_roc_limit", "lux_roc_limit"} THEN a ELSE b]) :
        a \in RocLimits, b \in RocLimits}
    \cup
    {WithRoc(cfg, [k \in RocKeys |->
                      IF k \in {"temp_roc_limit", "humidity_roc_limit"} THEN a ELSE b]) :
        a \in RocLimits, b \in RocLimits}

-----------------------------------------------------------------------------
(* C27 *)

\* C27: whenever handle_anomalies is not part-way through a list, the
\* session batch is the sequence of the events persisted in this session
\* and anomaly_count is its length; the batch flushed at shutdown is that
\* sequence.
C27_ConsumedExactlyOnce ==
    pc \in {"loop", "finally", "done"} =>
        /\ session_anomalies = db_anomalies
        /\ anomaly_count = Len(session_anomalies)
        /\ \A i \in 1..Len(sink) :
              sink[i].kind = "batch" => sink[i].anomalies = db_anomalies

-----------------------------------------------------------------------------
(* C29 *)

\* C29: a pass of the loop that stores no sample, the insert having failed
\* or no sensor having returned a value, leaves the buffer, the readings
\* table and the count as they were and calls no classification; the count
\* is the number of samples persisted and pushed.
C29_FailedPassHasNoEffect ==
    [][IsIteration =>
        /\ reading_count' = Len(pushed')
        /\ reading_count' = Len(readings')
        /\ reading_count' = reading_count =>
              /\ reading_buffer' = reading_buffer
              /\ readings' = readings
              /\ invocations' = invocations]_vars

-----------------------------------------------------------------------------
(* detect_anomalies_in_window alone, on windows of every size *)

\* The sizes of window the call is made on.
WindowSizes == {0, 1, 9, 10, 11}

\* The windows: readings one second apart, the latest any reading the
\* sensors may return.
DetectWindows ==
    UNION {{[i \in 1..n |-> IF i = n THEN BufferReading(Iso(600 + n), latest)
                            ELSE BufferReading(Iso(600 + i), WindowReading)] :
                latest \in SessionReadings(0)} : n \in WindowSizes}

InitDetect ==
    /\ reading_buffer \in DetectWindows
    /\ db_config \in SessionStores \cup {EmptyStore}
    /\ pc = "detect"
    /\ now = 0
    /\ reading_count = Len(reading_buffer)
    /\ running = TRUE
    /\ email_enabled = FALSE
    /\ sink = <<>>
    /\ invocations = <<>>
    /\ pushed = <<>>
    /\ db_open = TRUE
    /\ signals = <<>>
    /\ IdleCal
    /\ db_anomalies = <<>>
    /\ session_anomalies = <<>>
    /\ anomaly_count = 0
    /\ anomalies = <<>>
    /\ current_reading = NoReading
    /\ baseline_stats = DictOf(BaselineKeys, NoEntries)
    /\ config = DictOf(ConfigKeys, NoEntries)
    /\ last_alert_times = NoLastAlerts
    /\ outcome = Returned(<<>>)
    /\ calls = <<>>

\* anomalies = self.detect_anomalies_in_window(): [] below 10 readings and
\* without a baseline; else detect_anomalies on reading_buffer[-1] with the
\* stored baseline, rules and last-alert times, and its list returned, or []
\* when anything raised.
DetectInWindow ==
    /\ pc = "detect"
    /\ LET latest == LatestReading(reading_buffer)
           cfg == get_baseline_config(db_config)
       IN  IF ~latest.present \/ ~cfg.found
           THEN /\ anomalies' = <<>>
                /\ UNCHANGED <<current_reading, baseline_stats, config,
                               last_alert_times, outcome>>
           ELSE /\ current_reading' = latest.v
                /\ baseline_stats' = WindowBaselineStats(cfg)
                /\ config' = cfg.rules
                /\ last_alert_times' = WindowLastAlertTimes(db_config)
                /\ outcome' = detect_anomalies(latest.v, WindowBaselineStats(cfg),
                                               cfg.rules, WindowLastAlertTimes(db_config))
                /\ anomalies' = IF outcome'.raised THEN <<>> ELSE outcome'.anomalies
    /\ invocations' = Append(invocations,
                             [reading_count |-> reading_count,
                              latest_reading |-> LatestReading(reading_buffer)])
    /\ pc' = "detected"
    /\ UNCHANGED <<now, db_config, db_anomalies, session_anomalies, anomaly_count,
                   calls, calVars, reading_buffer, reading_count, running,
                   email_enabled, sink, pushed, db_open, signals>>

NextDetect == DetectInWindow

SpecDetect == InitDetect /\ [][NextDetect]_vars

\* C30: the call made on a window of fewer than 10 samples returns nothing
\* and has passed nothing to the classifier; on a window of 10 or more with
\* a baseline stored, the classifier was passed the last entry of the
\* window, the stored baseline, rules and last-alert times, and the list it
\* returned is the list returned.
C30_WindowGate ==
    pc = "detected" =>
        /\ Len(reading_buffer) < MinWindowReadings =>
              /\ anomalies = <<>>
              /\ current_reading = NoReading
              /\ outcome = Returned(<<>>)
        /\ (Len(reading_buffer) >= MinWindowReadings
              /\ get_baseline_config(db_config).found) =>
              /\ current_reading = reading_buffer[Len(reading_buffer)]
              /\ \A k \in {"temp_f_med", "temp_f_mad", "hum_med", "hum_mad"} :
                    baseline_stats[k] = db_config.baseline[k]
              /\ config = db_config.rules
              /\ last_alert_times = db_config.last_alert
              /\ outcome = detect_anomalies(current_reading, baseline_stats, config,
                                            last_alert_times)
              /\ ~outcome.raised => anomalies = outcome.anomalies

\* A window of exactly 10 samples whose latest is out of range: its events
\* are returned.
C30_Witness ==
    /\ pc = "detected"
    /\ Len(reading_buffer) = MinWindowReadings
    /\ current_reading.temp_f = Some(950)
    /\ ~outcome.raised
    /\ anomalies # <<>>
    /\ anomalies = outcome.anomalies

====
